---- MODULE Spec2Model ----
(***************************************************************************)
(* A model of the ray-casting maze game: the grid maze store, the ray      *)
(* caster, the wall textures and lighting, the frame renderer with its     *)
(* sprite compositor, the audio manager with its timer threads, and the    *)
(* main loop with the game-state update.                                   *)
(*                                                                         *)
(* Numbers.  The program computes in f32.  The model computes in exact     *)
(* fixed point: a world coordinate is an integer number of ticks, Fx ticks *)
(* to the world unit; a ray distance is an integer number of half world    *)
(* units (STEP_SIZE = 1.5 is 3 of them); an angle is an integer number of  *)
(* milliradians.  cos and sin are tabulated: DirTable holds 12 exact       *)
(* rational unit vectors (the 3-4-5 triple over DirDen), and an angle uses *)
(* the entry nearest to it.  f32 rounding is not modelled.                 *)
(***************************************************************************)
EXTENDS Integers, Sequences, FiniteSets, TLC

VARIABLES
    maze,        \* the grid a function is handed / game_state.data.maze
    player,      \* Player: pos.x, pos.y (ticks), a (milliradians)
    cast,        \* cast_ray_textured: position in the march loop and result
    loader,      \* load_maze / load_level: the level file and the stage reached
    probe,       \* the last grid lookup made and what each lookup function did
    sprites,     \* SpriteManager.sprites
    frame,       \* render_world_with_sprites: position, depth buffers, pixels
    game,        \* GameState: mode and the counters of GameData
    loop,        \* main: position in the frame loop and the frame's locals
    audio        \* AudioManager: the music slot and its lock, the timer threads

vars == <<maze, player, cast, loader, probe, sprites, frame, game, loop, audio>>

----------------------------------------------------------------------------
(* Fixed point *)

DirDen == 4 + 1
Fx == 10 * DirDen

\* main.rs: let block_size = 100
block_size == 100

\* caster.rs constants; STEP_SIZE = 1.5 is kept in half units
MAX_DISTANCE == 1000
STEP_SIZE_HALVES == 3
MAX_ITERATIONS == 400

Ticks(u) == u * Fx
BlockTicks == block_size * Fx

\* f32 -> usize of a non-negative quotient: truncation
GridOf_ceil(t) == (t + BlockTicks - 1) \div BlockTicks
GridOf(t) == t \div BlockTicks

\* (cos, sin) * DirDen for the 12 tabulated angles, by increasing angle
DirTable ==
    << <<5, 0>>, <<4, 3>>, <<3, 4>>, <<0, 5>>, <<-3, 4>>, <<-4, 3>>,
       <<-5, 0>>, <<-4, -3>>, <<-3, -4>>, <<0, -5>>, <<3, -4>>, <<4, -3>> >>

\* the tabulated angles in milliradians
DirAngle ==
    << 0, 644, 927, 1571, 2214, 2498, 3142, 3785, 4069, 4712, 5356, 5640 >>

NumDirs == Len(DirTable)
\* std::f32::consts::PI in milliradians
PI == 3142
TWO_PI == 2 * PI

AngleMod(theta) == theta % TWO_PI
CircDist(a, b) ==
    LET d == AngleMod(a - b) IN IF d > TWO_PI - d THEN TWO_PI - d ELSE d

\* index of the tabulated direction nearest to angle theta (f32::cos / f32::sin)
DirIndex(theta) ==
    CHOOSE i \in 1..NumDirs :
        \A j \in 1..NumDirs :
            \/ CircDist(theta, DirAngle[i]) < CircDist(theta, DirAngle[j])
            \/ (CircDist(theta, DirAngle[i]) = CircDist(theta, DirAngle[j]) /\ i <= j)
Cos(theta) == DirTable[DirIndex(theta)][1]
Sin(theta) == DirTable[DirIndex(theta)][2]

----------------------------------------------------------------------------
(* Cell symbols *)

WallSymbols == {"#", "+", "-", "|", "r", "b", "g"}
WalkableSymbols == {" ", "k", "t", "l", "c", "e"}

\* caster.rs is_wall_cell
is_wall_cell_hash(cell) == cell = "#"
is_wall_cell_k(cell) == cell \in WallSymbols \cup {"k"}
is_wall_cell(cell) == cell \in {"#", "+", "-", "|", "r", "b", "g"}

----------------------------------------------------------------------------
(* Mazes *)

\* maze.rs create_default_maze
create_default_maze ==
    << <<"#","#","#","#","#","#","#","#","#","#","#","#","#","#","#","#">>,
       <<"#"," "," "," "," "," "," "," "," "," "," "," "," "," "," ","#">>,
       <<"#"," ","#","#","#","#","#","#","#","#","#","#","#","#"," ","#">>,
       <<"#"," "," "," "," "," "," "," "," "," "," "," "," "," "," ","#">>,
       <<"#"," ","#","#","#","#","#","#","#"," ","#"," ","#"," ","#","#","#">>,
       <<"#"," ","#"," "," "," "," "," ","#"," ","#"," ","#"," "," "," ","#">>,
       <<"#"," ","#"," ","#","#","#"," ","#"," ","#"," ","#","#","#"," ","#">>,
       <<"#"," ","#"," "," "," ","#"," ","#"," ","#"," "," "," ","#"," ","#">>,
       <<"#"," ","#","#","#"," ","#"," ","#"," ","#","#","#"," ","#"," ","#">>,
       <<"#"," ","#","k"," "," ","#"," ","#"," "," "," ","#"," ","#"," ","#">>,
       <<"#"," ","#","#","#","#","#"," ","#","#","#"," ","#"," ","#"," ","#">>,
       <<"#"," "," "," "," "," "," "," "," "," "," "," ","#"," ","#"," ","#">>,
       <<"#","#","#","#","#","#","#","#","#","#","#","#","#"," ","#"," ","#">>,
       <<"#"," "," "," "," "," "," "," "," "," "," "," "," "," ","#"," ","#">>,
       <<"#"," "," "," "," "," "," "," "," "," "," "," ","l"," "," ","#","#">>,
       <<"#","#","#","#","#","#","#","#","#","#","#","#","#","#","e","#","#">> >>

\* game_state.rs GameState::create_emergency_maze
create_emergency_maze ==
    << <<"#","#","#","#","#","#","#","#","#","#","#","#","#","#","#","#","#","#","#">>,
       <<"#"," "," "," "," "," "," "," "," "," "," "," "," "," "," "," "," "," ","#">>,
       <<"#"," ","#","#","#","#","#","#","#","#","#","#","#","#","#","#","#"," ","#">>,
       <<"#"," "," "," "," "," "," "," "," "," "," "," "," "," "," "," "," "," ","#">>,
       <<"#"," ","#","#","#","#","#","#","#"," ","#"," ","#"," ","#","#","#","#">>,
       <<"#"," ","#"," "," "," "," "," ","#"," ","#"," ","#"," "," "," ","#">>,
       <<"#"," ","#"," ","#","#","#"," ","#"," ","#"," ","#","#","#"," ","#">>,
       <<"#"," ","#"," "," "," ","#"," ","#"," ","#"," "," "," ","#"," ","#">>,
       <<"#"," ","#","#","#"," ","#"," ","#"," ","#","#","#"," ","#"," ","#">>,
       <<"#"," ","#","k"," "," ","#"," ","#"," "," "," ","#"," ","#"," ","#">>,
       <<"#"," ","#","#","#","#","#"," ","#","#","#"," ","#"," ","#"," ","#">>,
       <<"#"," "," "," "," "," "," "," "," "," "," "," ","#"," ","#"," ","#">>,
       <<"#","#","#","#","#","#","#","#","#","#","#","#","#"," ","#"," ","#">>,
       <<"#"," "," "," "," "," "," "," "," "," "," "," "," "," ","#"," ","#">>,
       <<"#"," "," "," "," "," "," "," "," "," "," "," ","l"," "," ","#","#">>,
       <<"#","#","#","#","#","#","#","#","#","#","#","#","#","#","e","#","#">> >>

\* the row "# k #" of the spec's scenario
RowMaze == << <<"#", " ", "k", " ", "#">> >>

\* an enclosed maze with every wall variant and an interactive cell
VariantMaze ==
    << <<"#", "+", "-", "|", "#">>,
       <<"r", " ", " ", " ", "b">>,
       <<"g", " ", " ", " ", "#">>,
       <<"#", "#", "#", "#", "#">> >>

\* an enclosed hall longer than MAX_ITERATIONS steps of STEP_SIZE
HallMaze ==
    << <<"#", "#", "#", "#", "#", "#", "#", "#", "#">>,
       <<"#", " ", " ", " ", " ", " ", " ", " ", "#">>,
       <<"#", "#", "#", "#", "#", "#", "#", "#", "#">> >>

\* nothing but walls: load_level leaves the player at its fallback (150, 150)
SolidMaze == << <<"#", "+">>, <<"r", "b">> >>

\* an open cell with a '#' cell next to it along +x
StepMaze == << <<" ", "#">> >>

EmptyMaze == << >>
ZeroWidthMaze == << << >>, <<"#", "#">> >>

----------------------------------------------------------------------------
(* Ray caster: caster.rs *)

Sides == {"North", "South", "East", "West"}

create_default_intersect_zero ==
    [distance |-> 0, impact |-> " ",
     texture_x |-> 0, texture_y |-> 0, side |-> "North", kind |-> "default", grid_x |-> -1, grid_y |-> -1]

\* create_default_intersect.  kind, grid_x and grid_y are not fields of
\* Intersect: they record which return statement produced the value and the
\* grid cell the ray was in.
create_default_intersect ==
    [distance |-> 2 * MAX_DISTANCE, impact |-> "#",
     texture_x |-> 0, texture_y |-> 0, side |-> "North", kind |-> "default", grid_x |-> -1, grid_y |-> -1]

create_wall_intersect_unset(distance) ==
    [distance |-> distance, impact |-> "#",
     texture_x |-> -1, texture_y |-> -1, side |-> "North", kind |-> "outside", grid_x |-> -1, grid_y |-> -1]

\* create_wall_intersect(distance)
create_wall_intersect(distance) ==
    [distance |-> distance, impact |-> "#",
     texture_x |-> 0, texture_y |-> 0, side |-> "North", kind |-> "outside", grid_x |-> -1, grid_y |-> -1]

Min2(a, b) == IF a <= b THEN a ELSE b
Max2(a, b) == IF a >= b THEN a ELSE b
Clamp(v, lo, hi) == Max2(lo, Min2(v, hi))

determine_wall_side_last(norm_x, norm_y) ==
    LET distances == << <<norm_x, "West">>, <<BlockTicks - norm_x, "East">>,
                        <<norm_y, "North">>, <<BlockTicks - norm_y, "South">> >>
        best == CHOOSE i \in 1..4 :
                    \A j \in 1..4 :
                        \/ distances[i][1] < distances[j][1]
                        \/ (distances[i][1] = distances[j][1] /\ i >= j)
    IN distances[best][2]

\* determine_wall_side: Iterator::min_by keeps the first of equal minima
determine_wall_side(norm_x, norm_y) ==
    LET distances == << <<norm_x, "West">>, <<BlockTicks - norm_x, "East">>,
                        <<norm_y, "North">>, <<BlockTicks - norm_y, "South">> >>
        best == CHOOSE i \in 1..4 :
                    \A j \in 1..4 :
                        \/ distances[i][1] < distances[j][1]
                        \/ (distances[i][1] = distances[j][1] /\ i <= j)
    IN distances[best][2]

\* calculate_texture_coordinates
calculate_texture_coordinates(side, norm_x, norm_y) ==
    IF side \in {"North", "South"} THEN <<norm_x, norm_y>> ELSE <<norm_y, norm_x>>

\* maze.get(0).map_or(0, |row| row.len())
FirstRowWidth(m) == IF Len(m) = 0 THEN 0 ELSE Len(m[1])

\* maze.get(grid_y).and_then(|row| row.get(grid_x)).copied().unwrap_or('#')
CellOrWall(m, grid_x, grid_y) ==
    IF grid_y < Len(m) /\ grid_x < Len(m[grid_y + 1])
    THEN m[grid_y + 1][grid_x + 1]
    ELSE "#"

\* the loop body fell through to distance += STEP_SIZE
Continue == [kind |-> "continue"]

\* one iteration of the march loop of cast_ray_textured at the given distance
\* (half units), for a ray of direction DirTable[dir] from (px, py)
MarchBody(m, px, py, dir, distance) ==
    LET ray_x == px + distance * DirTable[dir][1] * (Fx \div (2 * DirDen))
        ray_y == py + distance * DirTable[dir][2] * (Fx \div (2 * DirDen))
        grid_x == GridOf(ray_x)
        grid_y == GridOf(ray_y)
    IN  IF ray_x < 0 \/ ray_y < 0 THEN create_wall_intersect(distance)
        ELSE IF grid_y >= Len(m) \/ grid_x >= FirstRowWidth(m)
             THEN create_wall_intersect(distance)
        ELSE LET current_cell == CellOrWall(m, grid_x, grid_y) IN
             IF is_wall_cell(current_cell)
             THEN LET cell_x == ray_x % BlockTicks
                      cell_y == ray_y % BlockTicks
                      norm_x == Clamp(cell_x, 0, BlockTicks)
                      norm_y == Clamp(cell_y, 0, BlockTicks)
                      side == determine_wall_side(norm_x, norm_y)
                      tex == calculate_texture_coordinates(side, norm_x, norm_y)
                  IN [distance |-> distance, impact |-> current_cell,
                      texture_x |-> Clamp(tex[1], 0, BlockTicks),
                      texture_y |-> Clamp(tex[2], 0, BlockTicks),
                      side |-> side, kind |-> "hit",
                      grid_x |-> grid_x, grid_y |-> grid_y]
             ELSE Continue

\* `for _ in 0..MAX_ITERATIONS` is over, or `if distance > MAX_DISTANCE { break; }`
LoopOver_inclusive(i, distance) == i > MAX_ITERATIONS \/ distance > 2 * MAX_DISTANCE
LoopOver(i, distance) == i >= MAX_ITERATIONS \/ distance > 2 * MAX_DISTANCE

\* at most n passes of the loop of cast_ray_textured from iteration i on:
\* the value returned, or the place the loop has reached
RECURSIVE MarchRun(_, _, _, _, _, _, _)
MarchRun(m, px, py, dir, i, distance, n) ==
    IF LoopOver(i, distance)
    THEN create_default_intersect
    ELSE IF n = 0 THEN [kind |-> "continue", i |-> i, distance |-> distance]
    ELSE LET r == MarchBody(m, px, py, dir, distance) IN
         IF r.kind = "continue"
         THEN MarchRun(m, px, py, dir, i + 1, distance + STEP_SIZE_HALVES, n - 1)
         ELSE r

\* the loop of cast_ray_textured from iteration i on, 20 passes at a time
RECURSIVE MarchFrom(_, _, _, _, _, _)
MarchFrom(m, px, py, dir, i, distance) ==
    LET r == MarchRun(m, px, py, dir, i, distance, 20) IN
    IF r.kind = "continue"
    THEN MarchFrom(m, px, py, dir, r.i, r.distance)
    ELSE r

\* cast_ray_textured(maze, player, angle, block_size)
cast_ray_textured(m, px, py, dir) ==
    IF Len(m) = 0 THEN create_default_intersect
    ELSE IF FirstRowWidth(m) = 0 THEN create_default_intersect
    ELSE MarchFrom(m, px, py, dir, 0, STEP_SIZE_HALVES)

----------------------------------------------------------------------------
(* cast_ray_textured as a process: one action per loop iteration *)

NoResult == [kind |-> "pending"]

CastIdle == [pc |-> "idle", dir |-> 1, i |-> 0, distance |-> 0, result |-> NoResult]

\* the guards before the loop (lines 35-48)
CastBegin ==
    /\ cast.pc = "start"
    /\ IF Len(maze) = 0 \/ FirstRowWidth(maze) = 0
       THEN cast' = [cast EXCEPT !.pc = "done", !.result = create_default_intersect]
       ELSE cast' = [cast EXCEPT !.pc = "march", !.distance = STEP_SIZE_HALVES]
    /\ UNCHANGED <<maze, player, loader, probe, sprites, frame, game, loop, audio>>

\* one pass of `for _ in 0..MAX_ITERATIONS` (lines 50-97)
CastIterate ==
    /\ cast.pc = "march"
    /\ IF LoopOver(cast.i, cast.distance)
       THEN cast' = [cast EXCEPT !.pc = "done", !.result = create_default_intersect]
       ELSE LET r == MarchBody(maze, player.x, player.y, cast.dir, cast.distance) IN
            IF r.kind = "continue"
            THEN cast' = [cast EXCEPT !.i = @ + 1,
                                      !.distance = @ + STEP_SIZE_HALVES]
            ELSE cast' = [cast EXCEPT !.i = @ + 1, !.pc = "done", !.result = r]
    /\ UNCHANGED <<maze, player, loader, probe, sprites, frame, game, loop, audio>>

CastMazes ==
    {EmptyMaze, ZeroWidthMaze, RowMaze, VariantMaze, HallMaze, SolidMaze, StepMaze,
     create_default_maze, create_emergency_maze}

\* player coordinates tried, in world units
CastCoords == {-50, 50, 130, 150, 250, 350}

\* the music slot: Option<Sink>.  some = FALSE is None.
NoSink == [some |-> FALSE, track |-> "", paused |-> FALSE]

\* the holder of the music_sink Mutex: nobody, the main thread, or the one
\* timer thread that stands between its lock and its unlock
MutexFree == 0
MainThread == 1
TimerThread == 2

\* AudioManager::new.  main holds the steps the main thread has still to take
\* inside an audio call, timers the delayed threads alive, events the
\* GameAudioEvents played in the pass, decodes whether the sound files decode.
AudioNew ==
    [music_sink |-> NoSink, lock |-> MutexFree, music_playing |-> FALSE,
     current_music_type |-> "None", main |-> << >>, timers |-> << >>,
     events |-> << >>, decodes |-> TRUE]

LoaderIdle == [pc |-> "idle", file |-> << >>]
ProbeIdle == [pc |-> "idle"]

\* SpriteManager::new: sprites: Vec::new(), z_buffer: Vec::new()
NoSprites == << >>
FrameIdle ==
    [pc |-> "idle", n |-> 1, column |-> 0, wall_distances |-> << >>, z_buffer |-> << >>,
     walls |-> << >>, order |-> << >>, sprite_pixels |-> {}, composited |-> FALSE,
     grid |-> << >>]

\* GameState::new
GameNew ==
    [mode |-> "Welcome", current_level |-> 1, lives |-> 3, has_key |-> FALSE,
     keys_collected |-> 0, keys_needed |-> 1, visited_checkpoints |-> << >>,
     notification_manager |-> << >>]
LoopIdle == [pc |-> "idle", maze_clone |-> << >>, frames |-> 0]

InitCast ==
    /\ maze \in CastMazes
    /\ player \in [x : {Ticks(c) : c \in CastCoords},
                   y : {Ticks(c) : c \in CastCoords}, a : {0}]
    /\ \E d \in 1..NumDirs : cast = [CastIdle EXCEPT !.pc = "start", !.dir = d]
    /\ loader = LoaderIdle
    /\ probe = ProbeIdle
    /\ sprites = NoSprites
    /\ frame = FrameIdle
    /\ game = GameNew
    /\ loop = LoopIdle
    /\ audio = AudioNew

NextCast == CastBegin \/ CastIterate

SpecCast == InitCast /\ [][NextCast]_vars

----------------------------------------------------------------------------
(* What the grid holds at a world point, for stating properties *)

\* the symbol stored at grid cell (gx, gy), "absent" where the grid has none
TrueCell(m, gx, gy) ==
    IF gx >= 0 /\ gy >= 0 /\ gy < Len(m) /\ gx < Len(m[gy + 1])
    THEN m[gy + 1][gx + 1]
    ELSE "absent"

Floor(t) == IF t >= 0 THEN t \div BlockTicks ELSE -(((-t) + BlockTicks - 1) \div BlockTicks)

\* the cell holding the world point (x, y), given in ticks
CellAtPoint(m, x, y) == TrueCell(m, Floor(x), Floor(y))

----------------------------------------------------------------------------
(* Maze loading: maze.rs load_maze, game_state.rs load_level *)

MaxLines == 2
MaxLineLen == 2
FileAlphabet == {"#", " ", "k"}

SeqsUpTo(S, n) == UNION {[1..k -> S] : k \in 0..n}

\* a level file: absent, or its lines
LevelFiles ==
    [exists : {FALSE}, lines : {<< >>}]
        \cup [exists : {TRUE}, lines : SeqsUpTo(SeqsUpTo(FileAlphabet, MaxLineLen), MaxLines)]

NoFile == [exists |-> FALSE, lines |-> << >>]

RECURSIVE MaxLen(_)
MaxLen(rows) ==
    IF rows = << >> THEN 0 ELSE Max2(Len(rows[1]), MaxLen(Tail(rows)))

\* while row.len() < max_width { row.push(' ') }
PadRow(row, max_width) ==
    [x \in 1..Max2(Len(row), max_width) |-> IF x <= Len(row) THEN row[x] ELSE " "]

\* load_maze(filename)
load_maze(file) ==
    IF file.exists
    THEN [y \in 1..Len(file.lines) |-> PadRow(file.lines[y], MaxLen(file.lines))]
    ELSE create_default_maze

\* the maze load_level keeps (lines 69-73)
load_level_maze(file) ==
    LET m == load_maze(file) IN
    IF Len(m) = 0 \/ \E y \in 1..Len(m) : Len(m[y]) = 0
    THEN create_emergency_maze
    ELSE m

\* load_maze called on its own (load_maze_data)
LoadMaze ==
    /\ loader.pc = "file"
    /\ maze' = load_maze(loader.file)
    /\ loader' = [pc |-> "loaded", file |-> NoFile]
    /\ UNCHANGED <<player, cast, probe, sprites, frame, game, loop, audio>>

\* load_level: load_maze and the emergency substitution
LoadLevelMaze ==
    /\ loader.pc = "file"
    /\ maze' = load_level_maze(loader.file)
    /\ loader' = [pc |-> "level", file |-> NoFile]
    /\ UNCHANGED <<player, cast, probe, sprites, frame, game, loop, audio>>

----------------------------------------------------------------------------
(* Grid lookups: collision.rs, maze.rs.  A Vec index past the end panics;  *)
(* the lookup's outcome is then "panic".                                   *)

Index(m, grid_x, grid_y) ==
    IF grid_y < Len(m) /\ grid_x < Len(m[grid_y + 1])
    THEN m[grid_y + 1][grid_x + 1]
    ELSE "panic"

\* CollisionSystem::is_within_bounds
is_within_bounds(m, grid_x, grid_y) ==
    grid_y < Len(m) /\ grid_x < FirstRowWidth(m)

\* CollisionSystem::world_to_grid: the grid cell, or <<>> for None
world_to_grid(m, x, y) ==
    IF x < 0 \/ y < 0 THEN << >>
    ELSE IF is_within_bounds(m, GridOf(x), GridOf(y))
         THEN <<GridOf(x), GridOf(y)>>
         ELSE << >>

\* CollisionSystem::get_cell
Collision_get_cell(m, x, y) ==
    LET g == world_to_grid(m, x, y) IN
    IF g = << >> THEN "#" ELSE Index(m, g[1], g[2])

BoolOf(cell, symbols) ==
    IF cell = "panic" THEN "panic" ELSE IF cell \in symbols THEN "true" ELSE "false"

\* CollisionSystem::can_move_to
Collision_can_move_to(m, x, y) ==
    LET g == world_to_grid(m, x, y) IN
    IF g = << >> THEN "false"
    ELSE BoolOf(Index(m, g[1], g[2]), {" ", "k", "t", "l", "c", "e"})

\* CollisionSystem::safe_raycast_check
safe_raycast_check(m, x, y) ==
    IF x < 0 \/ y < 0 THEN "#"
    ELSE IF is_within_bounds(m, GridOf(x), GridOf(y))
         THEN Index(m, GridOf(x), GridOf(y))
         ELSE "#"

\* MazeData::new(grid).get_cell(x, y): width is the first row's length
MazeData_get_cell(m, grid_x, grid_y) ==
    IF grid_y < Len(m) /\ grid_x < FirstRowWidth(m)
    THEN Index(m, grid_x, grid_y)
    ELSE "#"

\* MazeData::get_cell_safe
MazeData_get_cell_safe(m, x, y) ==
    IF x < 0 \/ y < 0 THEN "#" ELSE MazeData_get_cell(m, GridOf(x), GridOf(y))

\* the lookup of the march loop (lines 59-74): bounds test, then Vec::get
Caster_lookup(m, x, y) ==
    IF x < 0 \/ y < 0 THEN "#"
    ELSE IF GridOf(y) >= Len(m) \/ GridOf(x) >= FirstRowWidth(m) THEN "#"
    ELSE CellOrWall(m, GridOf(x), GridOf(y))

\* world coordinates probed: one before the grid, then the centre of each of
\* the first n + 1 cells
ProbeCoords(n) == {Ticks(-50)} \cup {Ticks(block_size * i + 50) : i \in 0..n}

\* one lookup of every kind at the world point (x, y)
Probe ==
    /\ loader.pc \in {"loaded", "level"}
    /\ probe.pc = "idle"
    /\ \E x \in ProbeCoords(MaxLen(maze)), y \in ProbeCoords(Len(maze)) :
         probe' = [pc |-> "done", x |-> x, y |-> y,
                   get_cell |-> Collision_get_cell(maze, x, y),
                   can_move_to |-> Collision_can_move_to(maze, x, y),
                   safe_raycast_check |-> safe_raycast_check(maze, x, y),
                   maze_data |-> MazeData_get_cell_safe(maze, x, y),
                   caster |-> Caster_lookup(maze, x, y)]
    /\ UNCHANGED <<maze, player, cast, loader, sprites, frame, game, loop, audio>>

InitMaze ==
    /\ maze = EmptyMaze
    /\ player = [x |-> Ticks(150), y |-> Ticks(150), a |-> 0]
    /\ cast = CastIdle
    /\ loader \in [pc : {"file"}, file : LevelFiles]
    /\ probe = ProbeIdle
    /\ sprites = NoSprites
    /\ frame = FrameIdle
    /\ game = GameNew
    /\ loop = LoopIdle
    /\ audio = AudioNew

NextMaze == LoadMaze \/ LoadLevelMaze \/ Probe

SpecMaze == InitMaze /\ [][NextMaze]_vars

\* C5: every maze load_maze or load_level hands over has rows of one length.
C5_RowsOfEqualLength ==
    loader.pc \in {"loaded", "level"} =>
        \A y \in 1..Len(maze) : Len(maze[y]) = Len(maze[1])

\* C6: no lookup indexes past the end of a row or of the grid, and each
\* yields the cell stored at the point or treats the point as wall.
C6_LookupsNeverOutOfRange ==
    probe.pc = "done" =>
        LET cell == CellAtPoint(maze, probe.x, probe.y) IN
        /\ \A r \in {probe.get_cell, probe.safe_raycast_check,
                     probe.maze_data, probe.caster} :
              r # "panic" /\ (r = cell \/ r = "#")
        /\ probe.can_move_to # "panic"
        /\ probe.can_move_to = "true" => cell \in WalkableSymbols

----------------------------------------------------------------------------
(* Ray caster: properties *)

\* every cell on the border of the grid is a wall
EnclosedByWalls(m) ==
    /\ Len(m) > 0
    /\ \A y \in 1..Len(m) :
          /\ Len(m[y]) > 0
          /\ Len(m[y]) = Len(m[1])
          /\ m[y][1] \in WallSymbols
          /\ m[y][Len(m[y])] \in WallSymbols
    /\ \A x \in 1..Len(m[1]) :
          m[1][x] \in WallSymbols /\ m[Len(m)][x] \in WallSymbols

\* the world point the finished cast reports: player + distance * direction
HitX == player.x + cast.result.distance * DirTable[cast.dir][1] * (Fx \div (2 * DirDen))
HitY == player.y + cast.result.distance * DirTable[cast.dir][2] * (Fx \div (2 * DirDen))

IsSentinel(r) == r.distance = 2 * MAX_DISTANCE /\ r.impact = "#"

\* C3: in a maze enclosed by walls the march never runs more than
\* MAX_ITERATIONS iterations, and a finished cast reports a distance that is
\* at most MAX_DISTANCE.
C3_CastIsBounded ==
    EnclosedByWalls(maze) =>
        /\ cast.i <= MAX_ITERATIONS
        /\ cast.pc = "done" =>
              /\ cast.result.distance >= 0
              /\ cast.result.distance <= 2 * MAX_DISTANCE

\* an enclosed maze in which a ray ran the whole iteration budget and ended
C3_Witness ==
    /\ EnclosedByWalls(maze)
    /\ cast.pc = "done"
    /\ cast.i = MAX_ITERATIONS

\* C4: an empty maze or a zero-width first row gives the sentinel (distance
\* MAX_DISTANCE, impact '#') with no iteration performed, and a march that
\* spent its whole budget without a hit gives the sentinel too.
C4_DegenerateGivesSentinel ==
    cast.pc = "done" =>
        /\ (Len(maze) = 0 \/ Len(maze[1]) = 0) =>
              IsSentinel(cast.result) /\ cast.i = 0
        /\ (cast.i = MAX_ITERATIONS
              /\ cast.distance > MAX_ITERATIONS * STEP_SIZE_HALVES) =>
              IsSentinel(cast.result)

\* a march that spent the whole budget without a hit
C4_Witness ==
    /\ cast.pc = "done"
    /\ cast.i = MAX_ITERATIONS
    /\ cast.distance > MAX_ITERATIONS * STEP_SIZE_HALVES
    /\ IsSentinel(cast.result)

\* C9: the impact symbol of every finished cast is a wall symbol, and the
\* point a reported hit lies at is never inside a walkable or interactive cell.
C9_NoHitInWalkableCell ==
    cast.pc = "done" =>
        /\ cast.result.impact \in WallSymbols
        /\ cast.result.kind # "default" =>
              CellAtPoint(maze, HitX, HitY) \notin WalkableSymbols

\* the scenario: in "# k #" a ray along +x that crossed the 'k' cell and hit
\* the wall behind it
C9_Witness ==
    /\ maze = RowMaze
    /\ cast.pc = "done"
    /\ cast.dir = 1
    /\ player.x = Ticks(150) /\ player.y = Ticks(50)
    /\ cast.result.kind = "hit"
    /\ cast.result.grid_x = 4

\* rows of one length, every cell a wall or empty
WallOnlyMaze(m) ==
    /\ Len(m) > 0
    /\ \A y \in 1..Len(m) :
          /\ Len(m[y]) = Len(m[1])
          /\ \A x \in 1..Len(m[y]) : m[y][x] \in WallSymbols \cup {" "}

\* the ray runs along a grid axis
AxisDir(d) == DirTable[d][1] = 0 \/ DirTable[d][2] = 0
Sign(v) == IF v > 0 THEN 1 ELSE IF v < 0 THEN -1 ELSE 0

PlayerCell == CellAtPoint(maze, player.x, player.y)

\* the cell next to the player's cell in the direction of the ray
AdjacentCell ==
    TrueCell(maze, Floor(player.x) + Sign(DirTable[cast.dir][1]),
                   Floor(player.y) + Sign(DirTable[cast.dir][2]))

AimedAtAdjacentWall ==
    /\ cast.pc = "done"
    /\ WallOnlyMaze(maze)
    /\ AxisDir(cast.dir)
    /\ PlayerCell # "absent"
    /\ AdjacentCell \in WallSymbols

ReportsAdjacentWall ==
    /\ cast.result.distance < 2 * (2 * block_size)
    /\ cast.result.impact = AdjacentCell

\* C10 as stated: in a wall-only maze a ray aimed along an axis at the wall
\* cell next to the player's cell reports a distance below 2 * cellSize and
\* that cell's symbol, wherever in the grid the player stands.
C10_Original == AimedAtAdjacentWall => ReportsAdjacentWall

\* C10 amended: the same, provided the player's own cell is not a wall cell.
C10_AdjacentWallReported ==
    (AimedAtAdjacentWall /\ PlayerCell \notin WallSymbols) => ReportsAdjacentWall

\* from the empty cell (1,1) of VariantMaze, a ray towards -y that hit '+'
C10_Witness ==
    /\ AimedAtAdjacentWall
    /\ PlayerCell = " "
    /\ maze = VariantMaze
    /\ cast.result.kind = "hit"
    /\ cast.result.impact = "+"

\* the scenario: cells of 100, a ray from (50, 50) at angle 0, the cell next
\* to the player's along +x a '#'
FacingHashCell ==
    /\ cast.pc = "done"
    /\ block_size = 100
    /\ player.x = Ticks(50) /\ player.y = Ticks(50)
    /\ cast.dir = DirIndex(0)
    /\ TrueCell(maze, 0, 0) \in WalkableSymbols
    /\ TrueCell(maze, 1, 0) = "#"

\* the hit is on the '#' cell at a distance (half units) within lo..hi
HitsHashCellWithin(lo, hi) ==
    /\ cast.result.kind = "hit"
    /\ cast.result.impact = "#"
    /\ cast.result.grid_x = 1 /\ cast.result.grid_y = 0
    /\ cast.result.distance >= lo
    /\ cast.result.distance <= hi

\* C11 as stated: the hit is reported at a distance within one step of 100.
C11_Original ==
    FacingHashCell =>
        HitsHashCellWithin(2 * 100 - STEP_SIZE_HALVES, 2 * 100 + STEP_SIZE_HALVES)

\* C11: the hit is reported at a distance within one step of 50, the
\* distance from the position to the near face of the '#' cell.
C11_HitWithinAStepOfTheFace ==
    FacingHashCell =>
        HitsHashCellWithin(2 * 50, 2 * 50 + STEP_SIZE_HALVES)

\* the scenario cast to its end
C11_Witness ==
    /\ FacingHashCell
    /\ maze = StepMaze
    /\ cast.result.kind = "hit"

\* a texture coordinate within [0, 1], in ticks of a cell
InUnitInterval(t) == t >= 0 /\ t <= BlockTicks

\* C14: for every intersection returned by the caster (a wall hit, a hit
\* outside the maze or the sentinel), texture_x and texture_y lie in [0, 1].
C14_TextureCoordinatesInUnitInterval ==
    cast.pc = "done" =>
        /\ cast.result.kind \in {"hit", "outside", "default"}
        /\ InUnitInterval(cast.result.texture_x)
        /\ InUnitInterval(cast.result.texture_y)

\* a wall hit away from the cell's corner, its two coordinates swapped by the
\* East/West arm of calculate_texture_coordinates
C14_Witness ==
    /\ cast.pc = "done"
    /\ cast.result.kind = "hit"
    /\ cast.result.side \in {"East", "West"}
    /\ cast.result.texture_x = HitY % BlockTicks
    /\ cast.result.texture_y = HitX % BlockTicks
    /\ cast.result.texture_x > cast.result.texture_y
    /\ cast.result.texture_y > 0

----------------------------------------------------------------------------
(* The side of a hit: cast_ray_textured lines 80-81 on an in-cell offset *)

\* the in-cell offsets tried along each axis: eighths of a cell, and one tick
\* either side of the middle
Norms ==
    {(k * BlockTicks) \div 8 : k \in 0..8}
        \cup {BlockTicks \div 2 - 1, BlockTicks \div 2 + 1}

\* determine_wall_side, then calculate_texture_coordinates
WallSide ==
    /\ probe.pc = "offset"
    /\ LET side == determine_wall_side(probe.norm_x, probe.norm_y)
           tex == calculate_texture_coordinates(side, probe.norm_x, probe.norm_y)
       IN probe' = [probe EXCEPT !.pc = "side", !.side = side,
                                 !.texture_x = tex[1], !.texture_y = tex[2]]
    /\ UNCHANGED <<maze, player, cast, loader, sprites, frame, game, loop, audio>>

InitSide ==
    /\ probe \in [pc : {"offset"}, norm_x : Norms, norm_y : Norms,
                  side : {"North"}, texture_x : {0}, texture_y : {0}]
    /\ maze = EmptyMaze
    /\ player = [x |-> Ticks(150), y |-> Ticks(150), a |-> 0]
    /\ cast = CastIdle
    /\ loader = LoaderIdle
    /\ sprites = NoSprites
    /\ frame = FrameIdle
    /\ game = GameNew
    /\ loop = LoopIdle
    /\ audio = AudioNew

NextSide == WallSide

SpecSide == InitSide /\ [][NextSide]_vars

\* the fixed order of the sides
SideOrder == <<"West", "East", "North", "South">>

\* the margin of the offset (u, v) to a side of the cell
Margin(side, u, v) ==
    CASE side = "West" -> u
      [] side = "East" -> BlockTicks - u
      [] side = "North" -> v
      [] side = "South" -> BlockTicks - v

\* side is the first, in the fixed order, of the sides of smallest margin
FirstSmallestMargin(side, u, v) ==
    \E i \in 1..4 :
        /\ SideOrder[i] = side
        /\ \A j \in 1..4 : Margin(side, u, v) <= Margin(SideOrder[j], u, v)
        /\ \A j \in 1..(i - 1) : Margin(side, u, v) < Margin(SideOrder[j], u, v)

\* C13: the side selected for an in-cell offset (u, v) is the side whose
\* margin among u, 1-u, v, 1-v is smallest, and of several equally smallest
\* the first in the order West, East, North, South.
C13_SideOfSmallestMargin ==
    probe.pc = "side" => FirstSmallestMargin(probe.side, probe.norm_x, probe.norm_y)

\* a side selected among margins of which not only the first is smallest
C13_Witness ==
    /\ probe.pc = "side"
    /\ probe.side = "East"
    /\ Margin("East", probe.norm_x, probe.norm_y)
           = Margin("South", probe.norm_x, probe.norm_y)
    /\ FirstSmallestMargin(probe.side, probe.norm_x, probe.norm_y)

----------------------------------------------------------------------------
(* The light of a wall column: calculate_distance_attenuation *)

\* let max_distance = 600.0
max_distance == 600

\* a brightness of 1.0; with distances in half units every value the function
\* computes is a whole number of these
BrightnessOne == 2 * max_distance * 10

\* let min_brightness = 0.3
min_brightness == (3 * BrightnessOne) \div 10

calculate_distance_attenuation_rising(distance) ==
    LET attenuation == Min2((distance * BrightnessOne) \div (2 * max_distance),
                            (8 * BrightnessOne) \div 10)
    IN Max2((attenuation * 7) \div 10, min_brightness)

\* calculate_distance_attenuation of a distance in half units
calculate_distance_attenuation(distance) ==
    LET attenuation == Min2((distance * BrightnessOne) \div (2 * max_distance),
                            (8 * BrightnessOne) \div 10)
    IN Max2(BrightnessOne - (attenuation * 7) \div 10, min_brightness)

\* the wall columns lit in one run
LitColumns == 2

\* the distances of the columns, in half units: every 50 world units up to
\* the sentinel, one step of the march, and the half units around max_distance
LitDistances ==
    {k * 100 : k \in 0..((2 * MAX_DISTANCE) \div 100)}
        \cup {STEP_SIZE_HALVES, 2 * max_distance - 1, 2 * max_distance + 1}

\* render_wall_column of the next column: its distance_attenuation
LightColumn ==
    /\ probe.pc = "columns"
    /\ LET column == Len(probe.brightness) + 1
           lit == Append(probe.brightness,
                         calculate_distance_attenuation(probe.distance[column]))
       IN probe' = [probe EXCEPT !.brightness = lit,
                                 !.pc = IF column = LitColumns THEN "lit" ELSE "columns"]
    /\ UNCHANGED <<maze, player, cast, loader, sprites, frame, game, loop, audio>>

InitLight ==
    /\ probe \in [pc : {"columns"}, distance : [1..LitColumns -> LitDistances],
                  brightness : {<< >>}]
    /\ maze = EmptyMaze
    /\ player = [x |-> Ticks(150), y |-> Ticks(150), a |-> 0]
    /\ cast = CastIdle
    /\ loader = LoaderIdle
    /\ sprites = NoSprites
    /\ frame = FrameIdle
    /\ game = GameNew
    /\ loop = LoopIdle
    /\ audio = AudioNew

NextLight == LightColumn

SpecLight == InitLight /\ [][NextLight]_vars

\* C15: for any two distances d1 < d2 <= 600 the distance attenuation
\* computed for d1 is at least that computed for d2, and no result is below
\* the minimum brightness 0.3.
C15_BrightnessNonIncreasing ==
    probe.pc = "lit" =>
        /\ \A i \in 1..LitColumns, j \in 1..LitColumns :
              (probe.distance[i] < probe.distance[j]
                  /\ probe.distance[j] <= 2 * max_distance)
              => probe.brightness[i] >= probe.brightness[j]
        /\ \A i \in 1..LitColumns : probe.brightness[i] >= min_brightness

\* two columns within max_distance, the nearer one the brighter
C15_Witness ==
    /\ probe.pc = "lit"
    /\ probe.distance[1] < probe.distance[2]
    /\ probe.distance[2] <= 2 * max_distance
    /\ probe.brightness[1] > probe.brightness[2]
    /\ probe.brightness[2] >= min_brightness

----------------------------------------------------------------------------
(* Wall textures: texture_manager.rs *)

Color_new(r, g, b, a) == [r |-> r, g |-> g, b |-> b, a |-> a]

\* raylib's Color::GRAY
GRAY == Color_new(130, 130, 130, 255)

\* TextureManager::init_fallback_colors
fallback_colors ==
    ("#" :> Color_new(200, 200, 120, 255)) @@ ("+" :> Color_new(180, 180, 100, 255))
    @@ ("-" :> Color_new(220, 220, 140, 255)) @@ ("|" :> Color_new(190, 190, 110, 255))
    @@ ("r" :> Color_new(180, 60, 60, 255)) @@ ("b" :> Color_new(60, 60, 180, 255))
    @@ ("g" :> Color_new(60, 180, 60, 255)) @@ ("e" :> Color_new(100, 255, 100, 255))

unwrap_or_black(colors, ch) ==
    IF ch \in DOMAIN colors THEN colors[ch] ELSE Color_new(0, 0, 0, 255)

\* colors.get(&ch).copied().unwrap_or(Color::GRAY)
unwrap_or_gray(colors, ch) ==
    IF ch \in DOMAIN colors THEN colors[ch] ELSE GRAY

\* the texture_mappings of load_wall_textures_safe
texture_mappings ==
    << <<"#", "wall_yellow.png">>, <<"+", "wall_yellow.png">>,
       <<"-", "wall_yellow.png">>, <<"|", "wall_yellow.png">>,
       <<"r", "wall_red.png">>, <<"b", "wall_blue.png">>,
       <<"g", "wall_green.png">>, <<"e", "exit_portal.png">> >>

TexturePaths == {texture_mappings[i][2] : i \in 1..Len(texture_mappings)}

\* default_texture_size: 64
default_texture_size == 64

\* the width and the height of the image decoded from a texture file
AssetSize == 2

\* the image decoded from a texture file: a chequerboard of two colours
DecodedImage == [kind |-> "file", width |-> AssetSize, height |-> AssetSize,
                 color |-> Color_new(255, 255, 255, 255)]

\* Image::gen_image_color(size, size, color)
gen_image_color(width, height, color) ==
    [kind |-> "flat", width |-> width, height |-> height, color |-> color]

\* the pixel (ix, iy) of an image
PixelOf(image, ix, iy) ==
    IF image.kind = "flat" \/ (ix + iy) % 2 = 0 THEN image.color
    ELSE Color_new(0, 0, 0, 255)

\* TextureInfo::new
TextureInfo_new(texture, fallback_color) ==
    [texture |-> texture, width |-> texture.width, height |-> texture.height,
     fallback_color |-> fallback_color]

\* (c as f32 * factor).min(255.0) as u8, the factor in hundredths
Scaled(c, factor) == Min2((c * factor) \div 100, 255)

ScaledColor(color, factor) ==
    Color_new(Scaled(color.r, factor), Scaled(color.g, factor),
              Scaled(color.b, factor), color.a)

\* (t * k) as i32 of a texture coordinate t in ticks of a cell
TexCell(t, k) == (t * k) \div BlockTicks

\* TextureInfo::get_pixel_color_safe
get_pixel_color_safe(texture_info, tx, ty) ==
    LET variation == (TexCell(tx, 16) + TexCell(ty, 16)) % 8
        factor == 90 + variation * 2
    IN ScaledColor(texture_info.fallback_color, factor)

\* TextureManager::get_wall_color_simple; pulse is the portal's factor at the
\* system time of the call, in hundredths
get_wall_color_simple(ch, texture_x, texture_y, pulse) ==
    LET base_color == unwrap_or_gray(fallback_colors, ch)
        variation_factor ==
            CASE ch \in {"#", "+", "-", "|"} ->
                   LET grid_x == TexCell(texture_x, 4)
                       grid_y == TexCell(texture_y, 4)
                       is_border == (grid_x % 4 = 0) \/ (grid_y % 4 = 0)
                   IN IF is_border THEN 90 ELSE 100
              [] ch = "r" ->
                   LET brick_pattern ==
                           (TexCell(texture_x, 6) + TexCell(texture_y, 3)) % 4
                   IN CASE brick_pattern = 0 -> 100
                        [] brick_pattern = 1 -> 95
                        [] brick_pattern = 2 -> 105
                        [] OTHER -> 92
              [] ch = "b" ->
                   LET metal_pattern ==
                           (TexCell(texture_x, 8) + TexCell(texture_y, 8)) % 3
                   IN CASE metal_pattern = 0 -> 100
                        [] metal_pattern = 1 -> 97
                        [] OTHER -> 103
              [] ch = "g" ->
                   LET organic_pattern ==
                           (TexCell(texture_x, 5) + TexCell(texture_y, 7)) % 5
                   IN IF organic_pattern < 2 THEN 100 ELSE 90
              [] ch = "e" -> pulse
              [] OTHER -> 100
    IN ScaledColor(base_color, variation_factor)

\* TextureManager::get_wall_color_textured, with the tier that answered
get_wall_color_textured(textures, ch, texture_x, texture_y, pulse) ==
    IF ch \in DOMAIN textures
    THEN [color |-> get_pixel_color_safe(textures[ch], texture_x, texture_y),
          tier |-> "texture"]
    ELSE [color |-> get_wall_color_simple(ch, texture_x, texture_y, pulse),
          tier |-> "pattern"]

\* (time * 3.0).sin() * 0.3 + 0.7 at the lowest, the middle and the highest
\* value of the sine, in hundredths
Pulses == {40, 70, 100}

\* the symbols sampled: the mapped ones, a walkable one and an unknown one
SampleSymbols == DOMAIN fallback_colors \cup {" ", "x"}

\* the texture coordinates sampled, in ticks of a cell
SampleCoords == {(k * BlockTicks) \div 16 : k \in {0, 1, 3, 8, 13, 16}}

NoColor == Color_new(0, 0, 0, 0)

\* load_wall_textures_safe: one pass of its loop over texture_mappings.
\* probe.disk is the set of texture files load_texture can decode;
\* probe.gpu tells whether load_texture_from_image succeeds.
LoadWallTexture ==
    /\ probe.pc = "load"
    /\ LET wall_char == texture_mappings[probe.i][1]
           texture_path == texture_mappings[probe.i][2]
           fallback_color == unwrap_or_gray(fallback_colors, wall_char)
           size == default_texture_size
           textures ==
               IF texture_path \in probe.disk
               THEN (wall_char :> TextureInfo_new(DecodedImage, fallback_color))
                        @@ probe.textures
               ELSE IF probe.gpu
               THEN (wall_char :> TextureInfo_new(
                                     gen_image_color(size, size, fallback_color),
                                     fallback_color))
                        @@ probe.textures
               ELSE probe.textures
       IN probe' = [probe EXCEPT !.textures = textures,
                                 !.i = @ + 1,
                                 !.pc = IF probe.i = Len(texture_mappings)
                                        THEN "ready" ELSE "load"]
    /\ UNCHANGED <<maze, player, cast, loader, sprites, frame, game, loop, audio>>

\* render_wall_column line 311: get_wall_color_textured of a symbol at a
\* texture coordinate
SampleWall ==
    /\ probe.pc = "ready"
    /\ \E ch \in SampleSymbols, tx \in SampleCoords, ty \in SampleCoords,
          pulse \in Pulses :
         LET sample == get_wall_color_textured(probe.textures, ch, tx, ty, pulse)
         IN probe' = [probe EXCEPT !.pc = "sampled", !.ch = ch, !.tx = tx, !.ty = ty,
                                   !.color = sample.color, !.tier = sample.tier]
    /\ UNCHANGED <<maze, player, cast, loader, sprites, frame, game, loop, audio>>

\* TextureManager::new before load_wall_textures_safe
InitTexture ==
    /\ probe \in [pc : {"load"}, disk : SUBSET TexturePaths, gpu : BOOLEAN,
                  i : {1}, textures : {<< >>}, ch : {" "}, tx : {0}, ty : {0},
                  color : {NoColor}, tier : {"none"}]
    /\ maze = EmptyMaze
    /\ player = [x |-> Ticks(150), y |-> Ticks(150), a |-> 0]
    /\ cast = CastIdle
    /\ loader = LoaderIdle
    /\ sprites = NoSprites
    /\ frame = FrameIdle
    /\ game = GameNew
    /\ loop = LoopIdle
    /\ audio = AudioNew

NextTexture == LoadWallTexture \/ SampleWall

SpecTexture == InitTexture /\ [][NextTexture]_vars

IsColor(color) ==
    /\ DOMAIN color = {"r", "g", "b", "a"}
    /\ \A k \in DOMAIN color : color[k] \in 0..255

\* C17: the texture provider returns a colour for every symbol and every
\* (u, v) in [0, 1] x [0, 1], and a symbol with neither a loaded texture nor a
\* palette entry resolves to neutral gray.
C17_SampleTotalAndGrayByDefault ==
    probe.pc = "sampled" =>
        /\ IsColor(probe.color)
        /\ (probe.ch \notin DOMAIN probe.textures
              /\ probe.ch \notin DOMAIN fallback_colors)
           => probe.color = GRAY

\* the unknown symbol sampled at the far corner of the texture
C17_Witness ==
    /\ probe.pc = "sampled"
    /\ probe.ch = "x"
    /\ probe.tx = BlockTicks /\ probe.ty = BlockTicks
    /\ probe.ch \notin DOMAIN probe.textures
    /\ probe.color = GRAY

\* the pixel of an image at (u, v): u and v scaled into pixel indices and
\* clamped to the image
BitmapPixelAt(image, tx, ty) ==
    PixelOf(image, Clamp(TexCell(tx, image.width), 0, image.width - 1),
                   Clamp(TexCell(ty, image.height), 0, image.height - 1))

\* C18: when a bitmap was loaded for a wall symbol the sample is the bitmap's
\* pixel at (u, v), scaled into pixel indices and clamped to the image; the
\* procedural pattern of the symbol answers only when no bitmap was loaded.
C18_BitmapSampledWhenLoaded ==
    probe.pc = "sampled" =>
        /\ probe.ch \in DOMAIN probe.textures
           => probe.color = BitmapPixelAt(probe.textures[probe.ch].texture,
                                          probe.tx, probe.ty)
        /\ probe.tier = "pattern" => probe.ch \notin DOMAIN probe.textures

----------------------------------------------------------------------------
(* Sprites: sprite_manager.rs *)

\* SpriteType::from_char; "None" is Option::None
from_char(c) ==
    CASE c = "k" -> "KeyGold"
      [] c = "c" -> "Checkpoint"
      [] c = "e" -> "ExitPortal"
      [] c = "l" -> "ExtraLife"
      [] c = "t" -> "TrapSpike"
      [] OTHER -> "None"

\* SpriteType::get_base_scale, in hundredths
get_base_scale(sprite_type) ==
    CASE sprite_type = "KeyGold" -> 80
      [] sprite_type = "Checkpoint" -> 120
      [] sprite_type = "ExitPortal" -> 150
      [] sprite_type = "ExtraLife" -> 90
      [] sprite_type = "TrapSpike" -> 100

\* SpriteType::is_animated
is_animated(sprite_type) ==
    sprite_type \in {"KeyGold", "Checkpoint", "ExitPortal", "ExtraLife"}

\* the amplitude of the pulsation Sprite::update adds to the base scale, in
\* hundredths: base + sin(..) * amplitude
ScaleAmplitude(sprite_type) ==
    CASE sprite_type = "KeyGold" -> 10
      [] sprite_type = "Checkpoint" -> 20
      [] sprite_type = "ExitPortal" -> 30
      [] sprite_type = "ExtraLife" -> 15
      [] OTHER -> 0

\* Sprite::new.  rotation and animation_time only feed the colour and the
\* scale; the scale they produce is kept, they are not.
Sprite_new(sprite_type, world_x, world_y) ==
    [sprite_type |-> sprite_type, world_x |-> world_x, world_y |-> world_y,
     scale |-> get_base_scale(sprite_type), active |-> TRUE]

\* Sprite::update with sin(animation_time * k) = phase
Sprite_update(sprite, phase) ==
    IF ~sprite.active \/ ~is_animated(sprite.sprite_type) THEN sprite
    ELSE [sprite EXCEPT !.scale = get_base_scale(sprite.sprite_type)
                                  + phase * ScaleAmplitude(sprite.sprite_type)]

\* SpriteManager::update_sprites
update_sprites(ss, phase) ==
    [i \in 1..Len(ss) |-> IF ss[i].active THEN Sprite_update(ss[i], phase) ELSE ss[i]]

\* the sprites of row `row` (0-based row_idx) from column col on, in order
RECURSIVE RowSprites(_, _, _)
RowSprites(row, row_idx, col) ==
    IF col > Len(row) THEN << >>
    ELSE LET sprite_type == from_char(row[col])
             rest == RowSprites(row, row_idx, col + 1)
         IN IF sprite_type = "None" THEN rest
            ELSE << Sprite_new(sprite_type,
                               Ticks((col - 1) * block_size + block_size \div 2),
                               Ticks(row_idx * block_size + block_size \div 2)) >>
                 \o rest

RECURSIVE MazeSprites(_, _)
MazeSprites(m, y) ==
    IF y > Len(m) THEN << >>
    ELSE RowSprites(m[y], y - 1, 1) \o MazeSprites(m, y + 1)

\* self.sprites.clear()
Vec_clear_keep(ss) == ss
Vec_clear(ss) == << >>

\* SpriteManager::load_sprites_from_maze on the sprite set ss: sprites.clear(),
\* then one sprite pushed per sprite cell, rows first
load_sprites_from_maze(ss, m) == Vec_clear(ss) \o MazeSprites(m, 1)

----------------------------------------------------------------------------
(* Sprite geometry *)

Abs(v) == IF v < 0 THEN -v ELSE v

\* the largest r in lo..hi with r * r <= n
RECURSIVE IsqrtIn(_, _, _)
IsqrtIn(n, lo, hi) ==
    IF lo >= hi THEN lo
    ELSE LET mid == (lo + hi + 1) \div 2 IN
         IF mid * mid <= n THEN IsqrtIn(n, mid, hi) ELSE IsqrtIn(n, lo, mid - 1)

\* f32::sqrt, truncated to a whole number (46340 is the largest root of a
\* 32-bit integer)
Isqrt(n) == IsqrtIn(n, 0, Min2(n, 46340))

\* Sprite::distance_to_player, in ticks truncated to a whole tick
distance_to_player(sprite, p) ==
    LET dx == sprite.world_x - p.x
        dy == sprite.world_y - p.y
    IN Isqrt(dx * dx + dy * dy)

\* atan(y / x) in milliradians for 0 <= y <= x, 0 < x: the rational
\* approximation t * (pi/4 + 0.273 * (1 - t)), within 4 milliradians
AtanUnit(y, x) ==
    LET t == (1000 * y) \div x
    IN (t * (785398 + 273 * (1000 - t))) \div 1000000

\* f32::atan2(dy, dx) in milliradians, in -PI..PI
Atan2(dy, dx) ==
    IF dx = 0 /\ dy = 0 THEN 0
    ELSE LET ax == Abs(dx)
             ay == Abs(dy)
             first == IF ax >= ay THEN AtanUnit(ay, ax)
                      ELSE PI \div 2 - AtanUnit(ax, ay)
             upper == IF dx >= 0 THEN first ELSE PI - first
         IN IF dy >= 0 THEN upper ELSE -upper

\* while relative_angle > PI { -= 2 PI }  while relative_angle < -PI { += 2 PI }
RECURSIVE NormalizeRelative(_)
NormalizeRelative(r) ==
    IF r > PI THEN NormalizeRelative(r - TWO_PI)
    ELSE IF r < -PI THEN NormalizeRelative(r + TWO_PI)
    ELSE r

\* player.fov = PI / 3 in every constructor of Player
FOV == PI \div 3
HALF_FOV == FOV \div 2

\* the relative_angle of is_visible_to_player and render_single_sprite
relative_angle(sprite, p) ==
    NormalizeRelative(Atan2(sprite.world_y - p.y, sprite.world_x - p.x) - p.a)

\* Sprite::is_visible_to_player
is_visible_to_player(sprite, p) == Abs(relative_angle(sprite, p)) <= HALF_FOV

\* f32 -> i32: truncation towards zero
TruncDiv(a, b) == IF a >= 0 THEN a \div b ELSE -((-a) \div b)

----------------------------------------------------------------------------
(* The frame renderer: caster.rs render_world_with_sprites and              *)
(* sprite_manager.rs render_sprites                                         *)

\* framebuffer.width and framebuffer.height (1300 x 900 in main.rs)
ScreenWidth == 6
ScreenHeight == 6

PROJECTION_PLANE_DISTANCE == 100

\* start_angle + column * angle_increment
ray_angle(p, column) == p.a - FOV \div 2 + (column * FOV) \div ScreenWidth

\* the Intersect of one screen column
ColumnIntersect(m, p, column) ==
    cast_ray_textured(m, p.x, p.y, DirIndex(ray_angle(p, column)))

\* intersect.distance.max(1.0), in half units
ColumnDistance(m, p, column) == Max2(ColumnIntersect(m, p, column).distance, 2)

\* <<wall_top, wall_bottom>> of a column at the given distance (half units):
\* wall_height = (half_height / distance) * PROJECTION_PLANE_DISTANCE
WallStrip(distance) ==
    LET H == ScreenHeight
        reach == PROJECTION_PLANE_DISTANCE * H
    IN << Max2(0, H * distance - reach) \div (2 * distance),
          Min2(H, (H * distance + reach) \div (2 * distance)) >>

\* a depth-buffer entry (half units) in ticks
DepthTicks(z) == z * (Fx \div 2)

\* `distance < self.z_buffer[x]` of render_sprite_column
DepthTest_none(distance, z) == TRUE
DepthTest(distance, z) == distance < DepthTicks(z)

\* color.a > 0 of get_fallback_sprite_color at tx = i / nx, ty = j / ny.
\* The sprite_infos table holds every sprite type.  The heart of ExtraLife is
\* evaluated with its coordinates truncated to tenths.
Opaque(sprite_type, i, nx, j, ny) ==
    CASE sprite_type = "KeyGold" -> TRUE
      [] sprite_type = "Checkpoint" ->
            \/ (10 * i > 4 * nx /\ 10 * i < 6 * nx)
            \/ (10 * j > 4 * ny /\ 10 * j < 6 * ny)
      [] sprite_type = "ExitPortal" ->
            255 * 255 * ((2 * i - nx) * (2 * i - nx) * ny * ny
                         + (2 * j - ny) * (2 * j - ny) * nx * nx)
                <= 254 * 254 * nx * nx * ny * ny
      [] sprite_type = "ExtraLife" ->
            LET x == TruncDiv(40 * i - 20 * nx, nx)
                y == TruncDiv(40 * j - 20 * ny, ny)
                u == x * x + y * y - 100
            IN u * u * u - 10 * x * x * y * y * y <= 0
      [] sprite_type = "TrapSpike" ->
            ((5 * i) \div nx) % 2 = 0 /\ 10 * j > 3 * ny

\* render_single_sprite and render_sprite_column: the pixels <<idx, x, y>>
\* sprite idx writes, given its distance (ticks) and the depth buffer z
SpritePixels(idx, sprite, p, distance, z) ==
    LET screen_x == TruncDiv(ScreenWidth * (HALF_FOV + relative_angle(sprite, p)),
                             2 * HALF_FOV)
        \* sprite_size as u32 as i32: a division by zero gives +inf,
        \* u32::MAX, -1
        size == IF distance = 0 THEN -1
                ELSE (ScreenHeight * sprite.scale * Fx) \div distance
        half_size == TruncDiv(size, 2)
        start_x == Max2(screen_x - half_size, 0)
        end_x == Min2(screen_x + half_size, ScreenWidth)
        center_y == ScreenHeight \div 2
        start_y == Max2(center_y - half_size, 0)
        end_y == Min2(center_y + half_size, ScreenHeight)
    IN  IF distance # 0 /\ size < 1 THEN {}
        ELSE { t \in {idx} \X (start_x..(end_x - 1)) \X (start_y..(end_y - 1)) :
                 /\ t[2] < Len(z)
                 /\ DepthTest(distance, z[t[2] + 1])
                 /\ Opaque(sprite.sprite_type, t[2] - start_x, end_x - start_x,
                           t[3] - start_y, end_y - start_y) }

\* the indices of the sprites that pass `sprite.active &&
\* sprite.is_visible_to_player(player)`, in index order
VisibleIndices(ss, p) ==
    SelectSeq([k \in 1..Len(ss) |-> k],
              LAMBDA k : ss[k].active /\ is_visible_to_player(ss[k], p))

\* the comparator of sort_by, |a, b| b.1.partial_cmp(&a.1): an entry at
\* distance da stays in front of a later entry at distance db
FarFirst_reversed(da, db) == da <= db
FarFirst(da, db) == da >= db

\* insert index k behind every index at least as far away: the stable
\* sort_by(|a, b| b.1.partial_cmp(&a.1)) keeps equal distances in index order
RECURSIVE InsertFar(_, _, _, _)
InsertFar(order, k, ss, p) ==
    IF order = << >> THEN <<k>>
    ELSE IF FarFirst(distance_to_player(ss[Head(order)], p),
                     distance_to_player(ss[k], p))
         THEN <<Head(order)>> \o InsertFar(Tail(order), k, ss, p)
         ELSE <<k>> \o order

RECURSIVE SortFarFirst(_, _, _)
SortFarFirst(idxs, ss, p) ==
    IF idxs = << >> THEN << >>
    ELSE InsertFar(SortFarFirst(SubSeq(idxs, 1, Len(idxs) - 1), ss, p),
                   idxs[Len(idxs)], ss, p)

\* sprite_distances after the sort: the order sprites are rendered in
RenderOrder(ss, p) == SortFarFirst(VisibleIndices(ss, p), ss, p)

\* z_buffer.resize(width, INFINITY) and the copy of wall_distances into it.
\* INFINITY is written as 2 * MAX_DISTANCE + 1 half units, farther than any
\* wall distance.
CopyDepths(z_buffer, wall_distances) ==
    [i \in 1..ScreenWidth |->
        IF i <= Len(wall_distances) THEN wall_distances[i]
        ELSE IF i <= Len(z_buffer) THEN z_buffer[i]
        ELSE 2 * MAX_DISTANCE + 1]

\* every pixel the sprites of `order` write with depth buffer z
AllSpritePixels(order, ss, p, z) ==
    UNION { SpritePixels(order[n], ss[order[n]], p,
                         distance_to_player(ss[order[n]], p), z) :
            n \in 1..Len(order) }

----------------------------------------------------------------------------
(* render_world_with_sprites as a process: one action per screen column *)

\* `for column in 0..screen_width` is over
ColumnsDone_early(column) == column >= ScreenWidth - 1
ColumnsDone(column) == column >= ScreenWidth

\* lines 160-176: the guard, sky and floor, wall_distances = vec![MAX_DISTANCE; w]
RenderBegin ==
    /\ frame.pc = "start"
    /\ IF Len(maze) = 0
       THEN frame' = [frame EXCEPT !.pc = "done"]
       ELSE frame' = [frame EXCEPT
                !.pc = "columns",
                !.grid = maze,
                !.column = 0,
                !.wall_distances = [i \in 1..ScreenWidth |-> 2 * MAX_DISTANCE],
                !.walls = [i \in 1..ScreenWidth |-> <<0, 0>>]]
    /\ UNCHANGED <<maze, player, cast, loader, probe, sprites, game, loop, audio>>

\* one pass of the column loop (lines 183-201)
RenderColumn ==
    /\ frame.pc = "columns"
    /\ ~ColumnsDone(frame.column)
    /\ LET distance == ColumnDistance(maze, player, frame.column) IN
       frame' = [frame EXCEPT
                !.wall_distances[frame.column + 1] = distance,
                !.walls[frame.column + 1] = WallStrip(distance),
                !.column = @ + 1]
    /\ UNCHANGED <<maze, player, cast, loader, probe, sprites, game, loop, audio>>

\* sprite_manager.render_sprites(framebuffer, player, &wall_distances)
RenderSprites ==
    /\ frame.pc = "columns"
    /\ ColumnsDone(frame.column)
    /\ IF sprites = << >>
       THEN frame' = [frame EXCEPT !.pc = "done"]
       ELSE LET z == CopyDepths(frame.z_buffer, frame.wall_distances)
                order == RenderOrder(sprites, player)
            IN frame' = [frame EXCEPT
                    !.pc = "done",
                    !.z_buffer = z,
                    !.order = order,
                    !.sprite_pixels = AllSpritePixels(order, sprites, player, z),
                    !.composited = TRUE]
    /\ UNCHANGED <<maze, player, cast, loader, probe, sprites, game, loop, audio>>

\* an enclosed scene: a key behind a wall and a checkpoint in the open
SceneMaze ==
    << <<"#", "#", "#", "#", "#">>,
       <<"#", " ", "#", "k", "#">>,
       <<"#", " ", "c", " ", "#">>,
       <<"#", "#", "#", "#", "#">> >>

\* a room with one sprite of every kind
GalleryMaze ==
    << <<"#", "#", "#", "#", "#">>,
       <<"#", "t", "l", "e", "#">>,
       <<"#", " ", " ", " ", "#">>,
       <<"#", "c", " ", "k", "#">>,
       <<"#", "#", "#", "#", "#">> >>

FrameMazes == {EmptyMaze, HallMaze, SceneMaze, GalleryMaze}
FrameCoords == {150, 250}
FrameAngles == {0, PI \div 4, PI}
\* frames rendered in one run
MaxFrames == 2
\* sin(..) of Sprite::update at the extremes of the pulsation
Phases == {-1, 1}

FramePoses ==
    [x : {Ticks(c) : c \in FrameCoords}, y : {Ticks(c) : c \in FrameCoords},
     a : FrameAngles]

\* the next frame of the same level: the player has moved, the sprites have
\* pulsed, framebuffer.clear()
FrameNext ==
    /\ frame.pc = "done"
    /\ frame.n < MaxFrames
    /\ player' \in FramePoses
    /\ \E phase \in Phases : sprites' = update_sprites(sprites, phase)
    /\ frame' = [frame EXCEPT !.pc = "start", !.n = @ + 1, !.sprite_pixels = {},
                              !.order = << >>, !.composited = FALSE]
    /\ UNCHANGED <<maze, cast, loader, probe, game, loop, audio>>

InitFrame ==
    /\ maze \in FrameMazes
    /\ player \in FramePoses
    /\ sprites = load_sprites_from_maze(NoSprites, maze)
    /\ frame = [FrameIdle EXCEPT !.pc = "start"]
    /\ cast = CastIdle
    /\ loader = LoaderIdle
    /\ probe = ProbeIdle
    /\ game = GameNew
    /\ loop = LoopIdle
    /\ audio = AudioNew

NextFrame == RenderBegin \/ RenderColumn \/ RenderSprites \/ FrameNext

SpecFrame == InitFrame /\ [][NextFrame]_vars

----------------------------------------------------------------------------
(* Properties of the frame renderer *)

\* C1: render_sprites paints no pixel of a sprite at a screen column where
\* the sprite's distance to the player is greater than or equal to the wall
\* distance the depth buffer holds for that column; only active sprites are
\* painted.
C1_SpritesOccludedByWalls ==
    \A t \in frame.sprite_pixels :
        /\ sprites[t[1]].active
        /\ ~(distance_to_player(sprites[t[1]], player)
                >= DepthTicks(frame.z_buffer[t[2] + 1]))

\* a sprite painted at one column and hidden by a nearer wall at the next
C1_Witness ==
    /\ frame.composited
    /\ \E t \in frame.sprite_pixels :
         \E x \in {t[2] - 1, t[2] + 1} \cap (0..(ScreenWidth - 1)) :
            /\ distance_to_player(sprites[t[1]], player)
                 >= DepthTicks(frame.z_buffer[x + 1])
            /\ \A y \in 0..(ScreenHeight - 1) : <<t[1], x, y>> \notin frame.sprite_pixels

\* C2: when the sprite compositor has run, every depth-buffer entry it read
\* is the final wall distance of that column for this frame's maze and
\* player, none left at its initial value or at the previous frame's.
C2_CompositorSeesFinalDepths ==
    frame.composited =>
        /\ Len(frame.z_buffer) = ScreenWidth
        /\ \A column \in 0..(ScreenWidth - 1) :
              frame.z_buffer[column + 1] = ColumnDistance(maze, player, column)

\* the compositor of a second frame, whose depths differ from the first's
C2_Witness ==
    /\ frame.composited
    /\ frame.n = MaxFrames
    /\ frame.z_buffer[ScreenWidth] < 2 * MAX_DISTANCE
    /\ frame.sprite_pixels # {}

\* the sprites of the rendering order that write the pixel (x, y), as
\* positions in frame.order
Writers(x, y) ==
    { n \in 1..Len(frame.order) : <<frame.order[n], x, y>> \in frame.sprite_pixels }

\* the sprite whose colour the framebuffer keeps at (x, y): set_pixel
\* overwrites, so it is the last writer in rendering order
LastWriter(x, y) == frame.order[CHOOSE n \in Writers(x, y) : \A k \in Writers(x, y) : k <= n]

ScreenPixels == (0..(ScreenWidth - 1)) \X (0..(ScreenHeight - 1))

\* C21: the visible sprites are drawn in order of non-increasing distance to
\* the player, so at a pixel several sprites write the colour left in the
\* framebuffer is that of a sprite no other writer is nearer than.
C21_DrawnFarToNear ==
    frame.composited =>
        /\ \A n \in 1..(Len(frame.order) - 1) :
              distance_to_player(sprites[frame.order[n]], player)
                >= distance_to_player(sprites[frame.order[n + 1]], player)
        /\ \A t \in ScreenPixels :
              \A n \in Writers(t[1], t[2]) :
                 distance_to_player(sprites[LastWriter(t[1], t[2])], player)
                   <= distance_to_player(sprites[frame.order[n]], player)

\* two sprites at different distances write the same pixel
C21_Witness ==
    /\ frame.composited
    /\ \E t \in ScreenPixels :
         \E n \in Writers(t[1], t[2]) :
            distance_to_player(sprites[LastWriter(t[1], t[2])], player)
              < distance_to_player(sprites[frame.order[n]], player)

----------------------------------------------------------------------------
(* Audio: audio.rs.  The operators below are whole calls of the main thread *)
(* and whole bodies of a timer thread; each takes the music_sink lock and   *)
(* gives it back before it ends.  Sound effects play on detached sinks of   *)
(* their own and leave no state behind; the footsteps timer and the end of  *)
(* a track (sink.empty() in update) are not modelled.                       *)

\* Sink::try_new, set_volume, append of the decoded track
Sink_new(track) == [some |-> TRUE, track |-> track, paused |-> FALSE]

\* the MutexGuard dropped
MutexUnlock_keep(a) == a
MutexUnlock(a) == [a EXCEPT !.lock = MutexFree]

\* AudioManager::stop_background_music
stop_background_music(a) ==
    [a EXCEPT !.music_sink = NoSink, !.music_playing = FALSE,
              !.current_music_type = "None"]

\* AudioManager::play_music
play_music(a, music_key, music_type) ==
    IF a.music_playing /\ a.current_music_type = music_type THEN a
    ELSE LET stopped == stop_background_music(a) IN
         IF stopped.decodes
         THEN [stopped EXCEPT !.music_sink = Sink_new(music_key),
                              !.music_playing = TRUE,
                              !.current_music_type = music_type]
         ELSE stopped

\* AudioManager::play_menu_music, play_background_music
play_menu_music(a) == play_music(a, "menu_music", "Menu")
play_background_music(a) == play_music(a, "background_music", "Background")

\* if let Some(ref sink) = *sink_option { sink.pause() }
pause_sink(a) ==
    IF a.music_sink.some THEN [a EXCEPT !.music_sink.paused = TRUE] ELSE a

\* if let Some(ref sink) = *sink_option { sink.play() }
play_sink(a) ==
    IF a.music_sink.some THEN [a EXCEPT !.music_sink.paused = FALSE] ELSE a

\* AudioManager::stop_music_for_sfx: try_lock, sink.pause()
stop_music_for_sfx(a) ==
    IF a.music_playing /\ a.lock = MutexFree THEN pause_sink(a) ELSE a

\* AudioManager::schedule_music_resume: the thread spawned, asleep
schedule_music_resume(a) ==
    [a EXCEPT !.timers = Append(@, [kind |-> "resume", pc |-> "sleep"])]

play_game_event_silent(a, event) == a

\* AudioManager::play_game_event
play_game_event(a, event) ==
    LET played == [a EXCEPT !.events = Append(@, event)] IN
    IF event = "LevelComplete"
    THEN schedule_music_resume(stop_music_for_sfx(played))
    ELSE played

\* AudioManager::resume_background_music_now
resume_background_music_now(a) ==
    IF ~a.music_playing \/ a.current_music_type # "Background"
    THEN play_background_music(a)
    ELSE a

\* the timer thread i gone
RemoveTimer(a, i) ==
    [a EXCEPT !.timers = [k \in 1..(Len(@) - 1) |-> IF k < i THEN @[k] ELSE @[k + 1]]]

\* the closure of schedule_music_resume after its sleep: a new sink of the
\* background track put into the slot
music_resume_body(a) ==
    IF a.decodes THEN [a EXCEPT !.music_sink = Sink_new("background_music")] ELSE a

\* the closure of play_important_sfx after its sleep: try_lock, sink.play()
sfx_resume_body(a) ==
    IF a.lock = MutexFree THEN play_sink(a) ELSE a

----------------------------------------------------------------------------
(* The audio threads at the grain of the lock: each lock(), each try_lock() *)
(* and each critical section is a step of its thread.                       *)

\* timer threads alive at a time
MaxTimers == 2

\* the steps of the calls the main loop makes
StepsOfStop == <<"lock", "take">>
StepsOfPlay(a, store) ==
    StepsOfStop \o (IF a.decodes THEN <<"lock", store>> ELSE << >>)
StepsOfEvent == <<"try_pause", "spawn_resume">>
StepsOfSfx == <<"try_pause", "spawn_sfx">>
StepsOfUpdate == <<"try_peek">>

\* what the main loop may call next, as the steps the call consists of
MainCalls(a) ==
    {StepsOfStop, StepsOfUpdate}
        \cup (IF a.music_playing /\ a.current_music_type = "Menu" THEN {}
              ELSE {StepsOfPlay(a, "store_menu")})
        \cup (IF a.music_playing /\ a.current_music_type = "Background" THEN {}
              ELSE {StepsOfPlay(a, "store_background")})
        \cup (IF Len(a.timers) < MaxTimers THEN {StepsOfEvent, StepsOfSfx} ELSE {})

Others == <<maze, player, cast, loader, probe, sprites, frame, game, loop>>

\* the main loop enters play_menu_music, play_background_music,
\* stop_background_music, play_game_event(LevelComplete), play_important_sfx
\* or update
MainCall ==
    /\ audio.main = << >>
    /\ \E steps \in MainCalls(audio) : audio' = [audio EXCEPT !.main = steps]
    /\ UNCHANGED Others

MainAt(step) == audio.main # << >> /\ Head(audio.main) = step

\* self.music_sink.lock(): waits until the lock is free
MainLock ==
    /\ MainAt("lock")
    /\ audio.lock = MutexFree
    /\ audio' = [audio EXCEPT !.lock = MainThread, !.main = Tail(@)]
    /\ UNCHANGED Others

\* stop_background_music lines 179-184: take, stop, the guard dropped
MainTake ==
    /\ MainAt("take")
    /\ audio' = [MutexUnlock(stop_background_music(audio)) EXCEPT !.main = Tail(@)]
    /\ UNCHANGED Others

\* play_music lines 145-147: the sink stored, the guard dropped
MainStore ==
    /\ MainAt("store_menu") \/ MainAt("store_background")
    /\ LET menu == MainAt("store_menu")
           stored == [audio EXCEPT
                        !.music_sink = Sink_new(IF menu THEN "menu_music"
                                                ELSE "background_music"),
                        !.music_playing = TRUE,
                        !.current_music_type = IF menu THEN "Menu" ELSE "Background"]
       IN audio' = [MutexUnlock(stored) EXCEPT !.main = Tail(@)]
    /\ UNCHANGED Others

\* stop_music_for_sfx lines 189-190: try_lock never waits
MainTryPause ==
    /\ MainAt("try_pause")
    /\ audio' = IF audio.music_playing /\ audio.lock = MutexFree
                THEN [audio EXCEPT !.lock = MainThread,
                                   !.main = <<"pause">> \o Tail(@)]
                ELSE [audio EXCEPT !.main = Tail(@)]
    /\ UNCHANGED Others

\* stop_music_for_sfx lines 191-193: sink.pause(), the guard dropped
MainPause ==
    /\ MainAt("pause")
    /\ audio' = [MutexUnlock(pause_sink(audio)) EXCEPT !.main = Tail(@)]
    /\ UNCHANGED Others

\* update lines 108-110: try_lock never waits
MainTryPeek ==
    /\ MainAt("try_peek")
    /\ audio' = IF audio.music_playing /\ audio.lock = MutexFree
                THEN [audio EXCEPT !.lock = MainThread,
                                   !.main = <<"peek">> \o Tail(@)]
                ELSE [audio EXCEPT !.main = Tail(@)]
    /\ UNCHANGED Others

\* update lines 111-117: sink.empty() looked at, the guard dropped
MainPeek ==
    /\ MainAt("peek")
    /\ audio' = [MutexUnlock(audio) EXCEPT !.main = Tail(@)]
    /\ UNCHANGED Others

\* std::thread::spawn in schedule_music_resume and in play_important_sfx
MainSpawn ==
    /\ MainAt("spawn_resume") \/ MainAt("spawn_sfx")
    /\ LET kind == IF MainAt("spawn_resume") THEN "resume" ELSE "sfx" IN
       audio' = [audio EXCEPT !.timers = Append(@, [kind |-> kind, pc |-> "sleep"]),
                              !.main = Tail(@)]
    /\ UNCHANGED Others

TimerAt(i, pc) == audio.timers[i].pc = pc

\* thread::sleep returns.  schedule_music_resume's thread decodes the track
\* and builds the sink, or ends if that fails.
TimerWake ==
    /\ \E i \in 1..Len(audio.timers) :
         /\ TimerAt(i, "sleep")
         /\ audio' = IF audio.timers[i].kind = "sfx"
                     THEN [audio EXCEPT !.timers[i].pc = "try"]
                     ELSE IF audio.decodes
                     THEN [audio EXCEPT !.timers[i].pc = "lock"]
                     ELSE RemoveTimer(audio, i)
    /\ UNCHANGED Others

\* schedule_music_resume line 427: music_sink.lock() waits until the lock is
\* free
TimerLock ==
    /\ \E i \in 1..Len(audio.timers) :
         /\ TimerAt(i, "lock")
         /\ audio.lock = MutexFree
         /\ audio' = [audio EXCEPT !.lock = TimerThread, !.timers[i].pc = "store"]
    /\ UNCHANGED Others

\* schedule_music_resume line 428: the new sink stored, the guard dropped, the
\* thread ends
TimerStore ==
    /\ \E i \in 1..Len(audio.timers) :
         /\ TimerAt(i, "store")
         /\ audio' = RemoveTimer(MutexUnlock(music_resume_body(audio)), i)
    /\ UNCHANGED Others

\* play_important_sfx line 243: try_lock never waits; the thread ends if the
\* lock is taken
TimerTry ==
    /\ \E i \in 1..Len(audio.timers) :
         /\ TimerAt(i, "try")
         /\ audio' = IF audio.lock = MutexFree
                     THEN [audio EXCEPT !.lock = TimerThread, !.timers[i].pc = "play"]
                     ELSE RemoveTimer(audio, i)
    /\ UNCHANGED Others

\* play_important_sfx lines 244-246: sink.play(), the guard dropped, the
\* thread ends
TimerPlay ==
    /\ \E i \in 1..Len(audio.timers) :
         /\ TimerAt(i, "play")
         /\ audio' = RemoveTimer(MutexUnlock(play_sink(audio)), i)
    /\ UNCHANGED Others

InitAudio ==
    /\ audio \in {[AudioNew EXCEPT !.decodes = decodes] : decodes \in BOOLEAN}
    /\ maze = EmptyMaze
    /\ player = [x |-> Ticks(150), y |-> Ticks(150), a |-> 0]
    /\ cast = CastIdle
    /\ loader = LoaderIdle
    /\ probe = ProbeIdle
    /\ sprites = NoSprites
    /\ frame = FrameIdle
    /\ game = GameNew
    /\ loop = LoopIdle

MainStep ==
    \/ MainLock
    \/ MainTake
    \/ MainStore
    \/ MainTryPause
    \/ MainPause
    \/ MainTryPeek
    \/ MainPeek
    \/ MainSpawn

\* the steps of a timer thread inside its critical section
TimerRelease == TimerStore \/ TimerPlay

NextAudio ==
    \/ MainCall
    \/ MainStep
    \/ TimerWake
    \/ TimerLock
    \/ TimerTry
    \/ TimerRelease

SpecAudio == InitAudio /\ [][NextAudio]_vars

\* A thread that can take a step takes one in the end: the main thread inside
\* a call, and a timer thread inside its critical section.
SpecAudioLive == SpecAudio /\ WF_vars(MainStep) /\ WF_vars(TimerRelease)

\* the main thread waits in a lock()
MainAwaitsLock == MainAt("lock")

\* the fields of the AudioManager a timer thread has no handle to
MainOnly(a) == <<a.music_playing, a.current_music_type, a.main, a.events, a.decodes>>

\* a step of a timer thread
TimerStep == TimerWake \/ TimerLock \/ TimerTry \/ TimerRelease

\* whoever holds the lock can take the step that gives it back
HolderCanRelease ==
    /\ audio.lock = TimerThread => ENABLED TimerRelease
    /\ audio.lock = MainThread => ENABLED (MainTake \/ MainStore \/ MainPause \/ MainPeek)

\* C19: the timer threads touch nothing of the main loop's but the
\* lock-guarded music slot, and never block the main loop: in every
\* interleaving each lock acquisition by the main loop completes, and no
\* state is reached in which the holder of the lock cannot give it back.
C19_MainLockCompletes ==
    /\ [][TimerStep => MainOnly(audio') = MainOnly(audio)]_vars
    /\ [](HolderCanRelease)
    /\ (MainAwaitsLock ~> (audio.lock = MainThread /\ ~MainAwaitsLock))

\* the main loop waits in lock() while a timer thread is inside its critical
\* section
C19_Witness ==
    /\ MainAwaitsLock
    /\ audio.lock = TimerThread
    /\ \E i \in 1..Len(audio.timers) : TimerAt(i, "store")

----------------------------------------------------------------------------
(* Notifications: notification.rs.  NotificationManager.notifications is a *)
(* sequence whose head is the front of the VecDeque; times are in          *)
(* milliseconds; a message is the show_ function that made it.             *)

\* NotificationManager::new: max_notifications
max_notifications == 5

\* Notification::new
Notification_new(message, notification_type, duration) ==
    [message |-> message, notification_type |-> notification_type,
     duration |-> duration, remaining_time |-> duration]

\* while self.notifications.len() >= self.max_notifications { pop_back() }
pop_back_while_full_never(q) == q
pop_back_while_full(q) ==
    IF Len(q) >= max_notifications THEN SubSeq(q, 1, max_notifications - 1) ELSE q

\* NotificationManager::add_notification
add_notification(q, message, notification_type, duration) ==
    <<Notification_new(message, notification_type, duration)>> \o pop_back_while_full(q)

show_life_lost(q, lives_remaining) == add_notification(q, "show_life_lost", "Error", 3000)
show_key_collected(q, keys_collected, keys_needed) ==
    IF keys_collected >= keys_needed
    THEN add_notification(q, "show_key_collected (all)", "Success", 3000)
    ELSE add_notification(q, "show_key_collected", "Success", 2500)
show_checkpoint_reached(q) == add_notification(q, "show_checkpoint_reached", "Special", 2500)
show_exit_blocked(q, reason) == add_notification(q, "show_exit_blocked", "Warning", 3000)
show_extra_life(q) == add_notification(q, "show_extra_life", "Success", 2500)
show_trap_activated(q) == add_notification(q, "show_trap_activated", "Error", 2000)

\* Notification::update: the notification it leaves; it is kept when
\* remaining_time > 0.0
Notification_update(n, delta_time) == [n EXCEPT !.remaining_time = @ - delta_time]

\* NotificationManager::update: retain_mut(|n| n.update(delta_time))
NotificationManager_update(q, delta_time) ==
    SelectSeq([i \in 1..Len(q) |-> Notification_update(q[i], delta_time)],
              LAMBDA n : n.remaining_time > 0)

\* NotificationManager::clear_all
clear_all(q) == << >>

----------------------------------------------------------------------------
(* Game state: game_state.rs *)

\* Player.radius = 20.0 in every constructor; radius * 0.7
RADIUS == 20
RADIUS_DIAGONAL == (RADIUS * 7) \div 10

\* the nine points can_move_to_safe tests around (x, y), in ticks
BodyPoints(x, y) ==
    LET r == Ticks(RADIUS)
        d == Ticks(RADIUS_DIAGONAL)
    IN << <<x, y>>, <<x + r, y>>, <<x - r, y>>, <<x, y + r>>, <<x, y - r>>,
          <<x + d, y + d>>, <<x - d, y - d>>, <<x + d, y - d>>, <<x - d, y + d>> >>

\* GameState::is_position_safe
is_position_safe(m, x, y) ==
    IF x < 0 \/ y < 0 THEN FALSE
    ELSE IF Len(m) = 0 THEN FALSE
    ELSE IF GridOf(y) >= Len(m) THEN FALSE
    ELSE IF GridOf(x) >= Len(m[GridOf(y) + 1]) THEN FALSE
    ELSE m[GridOf(y) + 1][GridOf(x) + 1] \in {" ", "k", "t", "l", "c", "e"}

\* GameState::can_move_to_safe
Game_can_move_to_safe(m, x, y) ==
    \A n \in 1..9 : is_position_safe(m, BodyPoints(x, y)[n][1], BodyPoints(x, y)[n][2])

\* the centre of grid cell (gx, gy), in ticks
CellCentre(gx, gy) ==
    << Ticks(gx * block_size + block_size \div 2),
       Ticks(gy * block_size + block_size \div 2) >>

\* GameState::has_spawn_clearance
has_spawn_clearance(m, x, y) ==
    IF Len(m) = 0 THEN FALSE
    ELSE \A dy \in -1..1 : \A dx \in -1..1 :
            LET check_x == x + dx
                check_y == y + dy
            IN (check_x >= 0 /\ check_y >= 0
                /\ check_y < Len(m) /\ check_x < Len(m[check_y + 1]))
               => m[check_y + 1][check_x + 1] \notin {"#", "+", "-", "|", "r", "b", "g"}

\* the grid cells <<x, y>> of m
Cells(m) == UNION { {<<x, y>> : x \in 0..(Len(m[y + 1]) - 1)} : y \in 0..(Len(m) - 1) }

\* the first of a set of cells in the order of `for row { for cell }`
FirstCell(S) ==
    CHOOSE c \in S : \A o \in S : c[2] < o[2] \/ (c[2] = o[2] /\ c[1] <= o[1])

\* GameState::find_spawn_position; << >> is None
find_spawn_position(m) ==
    LET S == { c \in Cells(m) : m[c[2] + 1][c[1] + 1] = " "
                                 /\ has_spawn_clearance(m, c[1], c[2]) }
    IN IF S = {} THEN << >> ELSE CellCentre(FirstCell(S)[1], FirstCell(S)[2])

\* GameState::find_safe_start_position: the position it leaves the player at
find_safe_start_position(m) ==
    LET S == { c \in Cells(m) :
                 /\ m[c[2] + 1][c[1] + 1] = " "
                 /\ is_position_safe(m, CellCentre(c[1], c[2])[1], CellCentre(c[1], c[2])[2]) }
    IN IF S = {} THEN <<Ticks(150), Ticks(150)>>
       ELSE CellCentre(FirstCell(S)[1], FirstCell(S)[2])

\* the start angle of set_player_start_position when no spawn cell is found
FallbackAngle(level) ==
    CASE level = 1 -> PI \div 4
      [] level = 2 -> 0
      [] level = 3 -> PI
      [] OTHER -> PI \div 4

\* GameState::set_player_start_position: the Player it leaves
set_player_start_position(m, level) ==
    LET spawn_pos == find_spawn_position(m)
        start_pos == IF spawn_pos # << >> THEN spawn_pos
                     ELSE <<Ticks(150), Ticks(150)>>
        start_angle == IF spawn_pos # << >> THEN PI \div 4 ELSE FallbackAngle(level)
        pos == IF is_position_safe(m, start_pos[1], start_pos[2]) THEN start_pos
               ELSE find_safe_start_position(m)
    IN [x |-> pos[1], y |-> pos[2], a |-> start_angle]

\* f32 -> usize: truncation, a negative value gives 0
GridOfSaturating(t) == IF t < 0 THEN 0 ELSE GridOf(t)

\* GameState::find_nearest_safe_position; << >> is None
find_nearest_safe_position(m, x, y) ==
    IF Len(m) = 0 THEN << >>
    ELSE LET start_grid_x == GridOfSaturating(x)
             start_grid_y == GridOfSaturating(y)
             S == { t \in (1..5) \X (-5..5) \X (-5..5) :
                      /\ Abs(t[2]) <= t[1] /\ Abs(t[3]) <= t[1]
                      /\ start_grid_x + t[3] >= 0 /\ start_grid_y + t[2] >= 0
                      /\ Game_can_move_to_safe(m,
                            CellCentre(start_grid_x + t[3], start_grid_y + t[2])[1],
                            CellCentre(start_grid_x + t[3], start_grid_y + t[2])[2]) }
             first == CHOOSE t \in S : \A o \in S :
                         \/ t[1] < o[1]
                         \/ (t[1] = o[1] /\ t[2] < o[2])
                         \/ (t[1] = o[1] /\ t[2] = o[2] /\ t[3] <= o[3])
         IN IF S = {} THEN << >>
            ELSE CellCentre(start_grid_x + first[3], start_grid_y + first[2])

\* GameState::validate_player_position: the Player it leaves
validate_player_position(m, p) ==
    IF Game_can_move_to_safe(m, p.x, p.y) THEN p
    ELSE LET safe == find_nearest_safe_position(m, p.x, p.y) IN
         IF safe # << >> THEN [p EXCEPT !.x = safe[1], !.y = safe[2]]
         ELSE [p EXCEPT !.x = Ticks(150), !.y = Ticks(150)]

\* keys_needed of load_level
KeysNeeded(level) ==
    CASE level = 1 -> 1 [] level = 2 -> 2 [] level = 3 -> 3 [] OTHER -> 1

\* checkpoints_needed of the exit
CheckpointsNeeded(level) ==
    CASE level = 1 -> 0 [] level = 2 -> 1 [] level = 3 -> 2 [] OTHER -> 0

load_level_keeps_key(g, level, file) ==
    LET m == load_level_maze(file) IN
    [maze |-> m,
     player |-> validate_player_position(m, set_player_start_position(m, level)),
     game |-> [g EXCEPT !.current_level = level,
                        !.keys_collected = 0,
                        !.visited_checkpoints = << >>,
                        !.keys_needed = KeysNeeded(level)]]

\* GameState::load_level(level) with the level file `file` on disk: the
\* maze, the player and the GameState it leaves
load_level(g, level, file) ==
    LET m == load_level_maze(file) IN
    [maze |-> m,
     player |-> validate_player_position(m, set_player_start_position(m, level)),
     game |-> [g EXCEPT !.current_level = level,
                        !.has_key = FALSE,
                        !.keys_collected = 0,
                        !.visited_checkpoints = << >>,
                        !.keys_needed = KeysNeeded(level)]]

reset_resumes(g) ==
    [g EXCEPT !.mode = "Playing", !.lives = 3, !.current_level = 1,
              !.has_key = FALSE, !.keys_collected = 0,
              !.visited_checkpoints = << >>]

\* GameState::reset
reset(g) ==
    [g EXCEPT !.mode = "Welcome", !.lives = 3, !.current_level = 1,
              !.has_key = FALSE, !.keys_collected = 0,
              !.visited_checkpoints = << >>]

\* maze[grid_y][grid_x] = ' '
ClearCell(m, grid_x, grid_y) == [m EXCEPT ![grid_y + 1][grid_x + 1] = " "]

\* visited_checkpoints.contains(&checkpoint_pos)
Vec_contains_never(v, e) == FALSE
Vec_contains(v, e) == \E n \in 1..Len(v) : v[n] = e

\* GameState::check_player_interactions_with_notifications: the maze, the
\* player, the GameState and the AudioManager it leaves
check_player_interactions(m, p, g, a) ==
    LET same == [maze |-> m, player |-> p, game |-> g, audio |-> a]
        grid_x == GridOf(p.x)
        grid_y == GridOf(p.y)
    IN  IF p.x < 0 \/ p.y < 0 \/ Len(m) = 0 THEN same
        ELSE IF grid_y >= Len(m) THEN same
        ELSE IF grid_x >= Len(m[grid_y + 1]) THEN same
        ELSE LET current_cell == m[grid_y + 1][grid_x + 1] IN
          CASE current_cell = "k" ->
                 [maze |-> ClearCell(m, grid_x, grid_y),
                  player |-> p,
                  game |-> [g EXCEPT !.keys_collected = @ + 1,
                                     !.has_key = (@ \/ g.keys_collected + 1 >= g.keys_needed),
                                     !.notification_manager =
                                         show_key_collected(@, g.keys_collected + 1,
                                                            g.keys_needed)],
                  audio |-> play_game_event(a, "KeyPickup")]
            [] current_cell = "t" ->
                 [maze |-> ClearCell(m, grid_x, grid_y),
                  player |-> [p EXCEPT !.x = Max2(@ - Ticks(10), Ticks(50)),
                                       !.y = Max2(@ - Ticks(10), Ticks(50))],
                  game |-> [g EXCEPT !.lives = IF @ > 0 THEN @ - 1 ELSE @,
                                     !.notification_manager =
                                         show_trap_activated(show_life_lost(@,
                                             IF g.lives > 0 THEN g.lives - 1 ELSE g.lives))],
                  audio |-> play_game_event(play_game_event(a, "TrapTriggered"),
                                            "PlayerHurt")]
            [] current_cell = "l" ->
                 [maze |-> ClearCell(m, grid_x, grid_y),
                  player |-> p,
                  game |-> [g EXCEPT !.lives = @ + 1,
                                     !.notification_manager = show_extra_life(@)],
                  audio |-> play_game_event(a, "KeyPickup")]
            [] current_cell = "c" ->
                 IF Vec_contains(g.visited_checkpoints, <<grid_x, grid_y>>)
                 THEN same
                 ELSE [maze |-> m,
                       player |-> p,
                       game |-> [g EXCEPT !.visited_checkpoints =
                                              Append(@, <<grid_x, grid_y>>),
                                          !.notification_manager =
                                              show_checkpoint_reached(@)],
                       audio |-> play_game_event(a, "CheckpointReached")]
            [] current_cell = "e" ->
                 IF ~g.has_key
                 THEN [same EXCEPT !.game.notification_manager =
                                       show_exit_blocked(@, "no_key")]
                 ELSE IF Len(g.visited_checkpoints) < CheckpointsNeeded(g.current_level)
                 THEN [same EXCEPT !.game.notification_manager =
                                       show_exit_blocked(@, "no_checkpoints")]
                 ELSE same
            [] OTHER -> same

check_win_condition_safe_keyless(m, p, g) ==
    IF p.x < 0 \/ p.y < 0 THEN FALSE
    ELSE IF Len(m) = 0 THEN FALSE
    ELSE IF GridOf(p.y) >= Len(m) THEN FALSE
    ELSE IF GridOf(p.x) >= Len(m[GridOf(p.y) + 1]) THEN FALSE
    ELSE m[GridOf(p.y) + 1][GridOf(p.x) + 1] = "e"

\* GameState::check_win_condition_safe
check_win_condition_safe(m, p, g) ==
    IF p.x < 0 \/ p.y < 0 THEN FALSE
    ELSE IF Len(m) = 0 THEN FALSE
    ELSE IF GridOf(p.y) >= Len(m) THEN FALSE
    ELSE IF GridOf(p.x) >= Len(m[GridOf(p.y) + 1]) THEN FALSE
    ELSE IF m[GridOf(p.y) + 1][GridOf(p.x) + 1] = "e"
         THEN g.has_key /\ Len(g.visited_checkpoints) >= CheckpointsNeeded(g.current_level)
         ELSE FALSE

\* self.data.notification_manager.update(0.016) at the top of an update
Tick(g) ==
    [g EXCEPT !.notification_manager = NotificationManager_update(@, 16)]

update_with_audio_undying(m, p, g, a) ==
    IF Len(m) = 0 THEN [maze |-> m, player |-> p, game |-> Tick(g), audio |-> a]
    ELSE LET after == check_player_interactions(m, p, Tick(g), a)
             won == check_win_condition_safe(after.maze, after.player, after.game)
         IN [after EXCEPT !.game.mode = IF won THEN "Victory" ELSE @,
                          !.audio = IF won THEN play_game_event(@, "LevelComplete")
                                    ELSE @]

\* GameState::update_with_audio: the maze, the player, the GameState and the
\* AudioManager it leaves
update_with_audio(m, p, g, a) ==
    IF Len(m) = 0 THEN [maze |-> m, player |-> p, game |-> Tick(g), audio |-> a]
    ELSE LET after == check_player_interactions(m, p, Tick(g), a)
             won == check_win_condition_safe(after.maze, after.player, after.game)
             mode == IF after.game.lives <= 0 THEN "GameOver"
                     ELSE IF won THEN "Victory"
                     ELSE after.game.mode
         IN [after EXCEPT !.game.mode = mode,
                          !.audio = IF won THEN play_game_event(@, "LevelComplete")
                                    ELSE @]

----------------------------------------------------------------------------
(* Player input: player.rs *)

MOVE_SPEED == 18
\* ROTATION_SPEED = PI / 18
ROTATION_SPEED == PI \div 18

NormalizeAngle_none(a) == a

\* while a < 0 { a += 2 PI }  while a >= 2 PI { a -= 2 PI }
NormalizeAngle(a) == a % TWO_PI

\* player.rs is_position_walkable_safe
is_position_walkable_safe(m, x, y) ==
    IF x < 0 \/ y < 0 THEN FALSE
    ELSE IF GridOf(y) >= Len(m) THEN FALSE
    ELSE IF GridOf(x) >= Len(m[GridOf(y) + 1]) THEN FALSE
    ELSE LET cell == m[GridOf(y) + 1][GridOf(x) + 1] IN
         IF cell = "t" THEN TRUE ELSE cell \in {" ", "k", "t", "l", "c", "e"}

\* player.rs can_move_to_safe
can_move_to_safe(m, x, y) ==
    IF x < 0 \/ y < 0 \/ x > Ticks(10000) \/ y > Ticks(10000) THEN FALSE
    ELSE IF Len(m) = 0 THEN FALSE
    ELSE \A n \in 1..9 :
            is_position_walkable_safe(m, BodyPoints(x, y)[n][1], BodyPoints(x, y)[n][2])

\* forward and backward: the whole step, else a slide along x, else along y
MoveSliding(p, dx, dy, m) ==
    IF can_move_to_safe(m, p.x + dx, p.y + dy) THEN [p EXCEPT !.x = @ + dx, !.y = @ + dy]
    ELSE IF can_move_to_safe(m, p.x + dx, p.y) THEN [p EXCEPT !.x = @ + dx]
    ELSE IF can_move_to_safe(m, p.x, p.y + dy) THEN [p EXCEPT !.y = @ + dy]
    ELSE p

\* strafe: the whole step or none
MoveWhole(p, dx, dy, m) ==
    IF can_move_to_safe(m, p.x + dx, p.y + dy) THEN [p EXCEPT !.x = @ + dx, !.y = @ + dy]
    ELSE p

\* MOVE_SPEED * cos(angle) and MOVE_SPEED * 0.7 * cos(angle), in ticks
StepX(angle) == (MOVE_SPEED * Fx * Cos(angle)) \div DirDen
StepY(angle) == (MOVE_SPEED * Fx * Sin(angle)) \div DirDen
StrafeX(angle) == (MOVE_SPEED * 7 * Fx * Cos(angle)) \div (10 * DirDen)
StrafeY(angle) == (MOVE_SPEED * 7 * Fx * Sin(angle)) \div (10 * DirDen)

\* process_events_with_maze_safe with the set `keys` of keys held down
process_events_with_maze_safe(p, keys, m) ==
    LET turned == [p EXCEPT !.a = NormalizeAngle(
                        @ + (IF keys \cap {"RIGHT", "E"} # {} THEN ROTATION_SPEED ELSE 0)
                          - (IF keys \cap {"LEFT", "Q"} # {} THEN ROTATION_SPEED ELSE 0))]
        a == turned.a
        forward == IF keys \cap {"UP", "W"} # {}
                   THEN MoveSliding(turned, StepX(a), StepY(a), m) ELSE turned
        backward == IF keys \cap {"DOWN", "S"} # {}
                    THEN MoveSliding(forward, -StepX(a), -StepY(a), m) ELSE forward
        right == IF "D" \in keys
                 THEN MoveWhole(backward, StrafeX(a + PI \div 2), StrafeY(a + PI \div 2), m)
                 ELSE backward
        left == IF "A" \in keys
                THEN MoveWhole(right, StrafeX(a - PI \div 2), StrafeY(a - PI \div 2), m)
                ELSE right
    IN left

\* process_mouse_input_safe: MOUSE_SENSITIVITY = 0.002 radians a pixel
process_mouse_input_safe(p, mouse_delta) ==
    [p EXCEPT !.a = NormalizeAngle(@ - mouse_delta * 2)]

----------------------------------------------------------------------------
(* The main loop: main.rs.  One pass of `while !window.window_should_close()` *)
(* is one action in the Welcome, GameOver and Victory arms, and four in the *)
(* Playing arm: input, update, render, keys.                                *)

\* render_world_with_sprites(framebuffer, grid, .., sprite_manager, .., player)
\* from its first line to its last
render_world_with_sprites(fr, grid, ss, p) ==
    IF Len(grid) = 0 THEN fr
    ELSE LET wall_distances == [i \in 1..ScreenWidth |-> ColumnDistance(grid, p, i - 1)]
             walled == [fr EXCEPT
                          !.grid = grid,
                          !.column = ScreenWidth,
                          !.wall_distances = wall_distances,
                          !.walls = [i \in 1..ScreenWidth |-> WallStrip(wall_distances[i])]]
             z == CopyDepths(fr.z_buffer, wall_distances)
             order == RenderOrder(ss, p)
         IN IF ss = << >> THEN walled
            ELSE [walled EXCEPT
                    !.z_buffer = z,
                    !.order = order,
                    !.sprite_pixels = AllSpritePixels(order, ss, p, z),
                    !.composited = TRUE]

\* framebuffer.clear() at the top of a pass
ClearFrame(fr) ==
    [fr EXCEPT !.column = 0, !.wall_distances = << >>, !.walls = << >>,
               !.order = << >>, !.sprite_pixels = {},
               !.composited = FALSE, !.grid = << >>]

\* the level files on disk, the same file for every level
KeyExitFile ==
    [exists |-> TRUE,
     lines |-> << <<"#", "#", "#", "#">>,
                  <<"#", "k", "e", "#">>,
                  <<"#", "#", "#", "#">> >>]
TrapFile ==
    [exists |-> TRUE,
     lines |-> << <<"#", "#", "#">>,
                  <<"#", "t", "#">>,
                  <<"#", "#", "#">> >>]
RoomFile ==
    [exists |-> TRUE,
     lines |-> << <<"#", "#", "#", "#", "#">>,
                  <<"#", "c", "l", "t", "#">>,
                  <<"#", "k", "e", "#", "#">>,
                  <<"#", "#", "#", "#", "#">> >>]
GameDisks == {KeyExitFile, TrapFile, RoomFile}

\* what the player does in one pass: the keys held down and the mouse movement
PlayInputs ==
    [keys : {{"W"}, {"W", "A"}, {"S", "E"}}, mouse : {0}]
        \cup [keys : {{}}, mouse : {500}]

\* passes of the Playing arm in one run
MaxPlayFrames == 3

\* the top of a pass as the audio sees it: no GameAudioEvent played yet.
\* audio_manager.update restarts a track that has ended, which is not modelled.
BeginPass(a) == [a EXCEPT !.events = << >>]

\* Welcome, lines 80-83: the menu music started unless it plays
WelcomeMusic(a) ==
    IF ~a.music_playing \/ a.current_music_type # "Menu"
    THEN play_menu_music(a)
    ELSE a

\* Welcome: render_welcome_screen returns None
WelcomePass ==
    /\ loop.pc = "top"
    /\ game.mode = "Welcome"
    /\ audio' = WelcomeMusic(BeginPass(audio))
    /\ frame' = ClearFrame(frame)
    /\ UNCHANGED <<maze, player, cast, loader, probe, sprites, game, loop>>

\* Welcome: render_welcome_screen returns Some(level)
WelcomeSelect ==
    /\ loop.pc = "top"
    /\ game.mode = "Welcome"
    /\ \E level \in 1..3 :
         LET r == load_level([game EXCEPT !.mode = "Playing"], level, loader.file) IN
         /\ maze' = r.maze
         /\ player' = r.player
         /\ game' = r.game
         /\ sprites' = load_sprites_from_maze(sprites, r.maze)
    /\ audio' = play_background_music(WelcomeMusic(BeginPass(audio)))
    /\ frame' = ClearFrame(frame)
    /\ UNCHANGED <<cast, loader, probe, loop>>

\* Playing, lines 98-133: the clone of the maze, the input, update_sprites;
\* the input is one of `inputs`, in a run of at most `passes` passes
PlayInputOf(inputs, passes) ==
    /\ loop.pc = "top"
    /\ game.mode = "Playing"
    /\ loop.frames < passes
    /\ frame' = ClearFrame(frame)
    /\ LET maze_clone == maze IN
       IF Len(maze_clone) # 0 /\ Len(maze_clone[1]) # 0
       THEN /\ \E input \in inputs :
                 player' = process_mouse_input_safe(
                              process_events_with_maze_safe(player, input.keys, maze_clone),
                              input.mouse)
            /\ \E phase \in Phases : sprites' = update_sprites(sprites, phase)
            /\ loop' = [loop EXCEPT !.pc = "update", !.maze_clone = maze_clone]
       ELSE /\ loop' = [loop EXCEPT !.pc = "keys", !.maze_clone = maze_clone]
            /\ UNCHANGED <<player, sprites>>
    /\ audio' = BeginPass(audio)
    /\ UNCHANGED <<maze, cast, loader, probe, game>>

PlayInput == PlayInputOf(PlayInputs, MaxPlayFrames)

\* Playing, line 136: game_state.update_with_audio
PlayUpdate ==
    /\ loop.pc = "update"
    /\ LET r == update_with_audio(maze, player, game, audio) IN
       /\ maze' = r.maze
       /\ player' = r.player
       /\ game' = r.game
       /\ audio' = r.audio
    /\ loop' = [loop EXCEPT !.pc = "render"]
    /\ UNCHANGED <<cast, loader, probe, sprites, frame>>

\* Playing, lines 139-160: render_world_with_sprites and render_minimap, both
\* handed maze_clone
PlayRender ==
    /\ loop.pc = "render"
    /\ frame' = render_world_with_sprites(frame, loop.maze_clone, sprites, player)
    /\ loop' = [loop EXCEPT !.pc = "keys"]
    /\ UNCHANGED <<maze, player, cast, loader, probe, sprites, game, audio>>

\* Playing, lines 166-170: the R key reloads the level and its sprites; the
\* pass ends
PlayKeys ==
    /\ loop.pc = "keys"
    /\ \E key_r \in BOOLEAN :
         IF key_r
         THEN LET r == load_level(game, game.current_level, loader.file) IN
              /\ maze' = r.maze
              /\ player' = r.player
              /\ game' = r.game
              /\ sprites' = load_sprites_from_maze(sprites, r.maze)
         ELSE UNCHANGED <<maze, player, game, sprites>>
    /\ loop' = [loop EXCEPT !.pc = "top", !.frames = @ + 1]
    /\ UNCHANGED <<cast, loader, probe, frame, audio>>

\* GameOver: render_game_over returns true
GameOverReset ==
    /\ loop.pc = "top"
    /\ game.mode = "GameOver"
    /\ game' = reset(game)
    /\ audio' = stop_background_music(BeginPass(audio))
    /\ frame' = ClearFrame(frame)
    /\ UNCHANGED <<maze, player, cast, loader, probe, sprites, loop>>

\* Victory: render_victory returns true
VictoryContinue ==
    /\ loop.pc = "top"
    /\ game.mode = "Victory"
    /\ IF game.current_level < 3
       THEN LET r == load_level(game, game.current_level + 1, loader.file) IN
            /\ maze' = r.maze
            /\ player' = r.player
            /\ game' = [r.game EXCEPT !.mode = "Playing",
                                      !.notification_manager = clear_all(@)]
            /\ sprites' = load_sprites_from_maze(sprites, r.maze)
            /\ audio' = resume_background_music_now(
                            play_game_event(BeginPass(audio), "LevelComplete"))
       ELSE /\ game' = reset(game)
            /\ audio' = play_game_event(BeginPass(audio), "LevelComplete")
            /\ UNCHANGED <<maze, player, sprites>>
    /\ frame' = ClearFrame(frame)
    /\ UNCHANGED <<cast, loader, probe, loop>>

\* a timer thread of schedule_music_resume or play_important_sfx wakes and
\* runs to its end
TimerRun ==
    /\ \E i \in 1..Len(audio.timers) :
         /\ audio.timers[i].pc = "sleep"
         /\ audio' = RemoveTimer(IF audio.timers[i].kind = "resume"
                                 THEN music_resume_body(audio)
                                 ELSE sfx_resume_body(audio), i)
    /\ UNCHANGED <<maze, player, cast, loader, probe, sprites, frame, game, loop>>

\* GameState::new, Player::new, SpriteManager::new
Init ==
    /\ maze = << >>
    /\ player = [x |-> Ticks(150), y |-> Ticks(150), a |-> PI \div 3]
    /\ sprites = NoSprites
    /\ frame = FrameIdle
    /\ game = GameNew
    /\ loop = [LoopIdle EXCEPT !.pc = "top"]
    /\ audio = AudioNew
    /\ loader \in [pc : {"disk"}, file : GameDisks]
    /\ cast = CastIdle
    /\ probe = ProbeIdle

Next ==
    \/ WelcomePass
    \/ WelcomeSelect
    \/ TimerRun
    \/ PlayInput
    \/ PlayUpdate
    \/ PlayRender
    \/ PlayKeys
    \/ GameOverReset
    \/ VictoryContinue

Spec == Init /\ [][Next]_vars

----------------------------------------------------------------------------
(* Properties of the main loop *)

\* the grid cell sprite i was created for
SpriteCell(i) == <<GridOf(sprites[i].world_x), GridOf(sprites[i].world_y)>>

\* sprite i stands for a key, a trap or a life whose cell the update has
\* since set to empty
Consumed(i) ==
    /\ sprites[i].sprite_type \in {"KeyGold", "TrapSpike", "ExtraLife"}
    /\ TrueCell(maze, SpriteCell(i)[1], SpriteCell(i)[2]) = " "

\* C7: once the update has consumed a key, trap or life cell, the sprite
\* created for that cell is inactive and no frame paints it.
C7_ConsumedSpriteDeactivated ==
    \A i \in 1..Len(sprites) :
        Consumed(i) =>
            /\ ~sprites[i].active
            /\ \A t \in frame.sprite_pixels : t[1] # i

\* C8: the grid handed to the renderer and the minimap in a pass is the
\* game's maze as the update of that pass left it.
C8_RenderSeesUpdatedGrid ==
    (loop.pc = "keys" /\ frame.grid # << >>) => frame.grid = maze

\* C16: in every reachable state the player's heading angle is normalized:
\* after a level load and after any keyboard rotations and mouse inputs,
\* 0 <= player.a < 2 PI.
C16_AngleNormalized == player.a >= 0 /\ player.a < TWO_PI

\* a heading that a mouse movement took below zero and the normalization
\* brought back under 2 PI: no start angle and no rotation reaches this far
C16_Witness ==
    /\ loop.pc = "update"
    /\ game.mode = "Playing"
    /\ player.a > 3 * (PI \div 2)
    /\ player.a < TWO_PI

\* the GameAudioEvent was played in the pass that ends in the next state
Emitted(event) == \E n \in 1..Len(audio'.events) : audio'.events[n] = event

\* the cell (grid_x, grid_y) is among the checkpoints visited
Visited(grid_x, grid_y) ==
    \E n \in 1..Len(game.visited_checkpoints) :
        game.visited_checkpoints[n] = <<grid_x, grid_y>>

\* C20: in a game update where the player's cell holds 'k', 't' or a
\* checkpoint 'c' not yet visited, the event of that symbol is emitted in the
\* same update (KeyPickup; TrapTriggered together with PlayerHurt;
\* CheckpointReached); LevelComplete is emitted in the update in which the win
\* condition comes to hold; no event is emitted when the player's cell is
\* empty.
C20_TriggersEmitInTheSameUpdate ==
    [][PlayUpdate =>
        LET current_cell == CellAtPoint(maze, player.x, player.y) IN
        /\ current_cell = "k" => Emitted("KeyPickup")
        /\ current_cell = "t" => Emitted("TrapTriggered") /\ Emitted("PlayerHurt")
        /\ (current_cell = "c" /\ ~Visited(Floor(player.x), Floor(player.y)))
           => Emitted("CheckpointReached")
        /\ check_win_condition_safe(maze', player', game') => Emitted("LevelComplete")
        /\ current_cell = " " => audio'.events = << >>
    ]_vars

\* an update on a trap cell has played its two events
C20_Witness ==
    /\ loop.pc = "render"
    /\ audio.events = <<"TrapTriggered", "PlayerHurt">>
    /\ game.lives < 3

C25_HasKeyIffEnoughKeys ==
    game.has_key <=> game.keys_collected >= game.keys_needed

\* an update has just picked up the last key needed
C25_Witness ==
    /\ loop.pc = "render"
    /\ game.has_key
    /\ game.keys_collected = game.keys_needed
    /\ \E n \in 1..Len(audio.events) : audio.events[n] = "KeyPickup"

\* C26: visited_checkpoints never holds the same cell twice, and an update
\* plays CheckpointReached only when it adds the player's cell, not visited
\* since the level was loaded, to visited_checkpoints.
C26_CheckpointsCountedOnce ==
    /\ [](\A i, j \in 1..Len(game.visited_checkpoints) :
            game.visited_checkpoints[i] = game.visited_checkpoints[j] => i = j)
    /\ [][PlayUpdate =>
            IF Emitted("CheckpointReached")
            THEN /\ ~Visited(GridOf(player.x), GridOf(player.y))
                 /\ game'.visited_checkpoints =
                        Append(game.visited_checkpoints,
                               <<GridOf(player.x), GridOf(player.y)>>)
            ELSE game'.visited_checkpoints = game.visited_checkpoints]_vars

\* a later update on a checkpoint cell already visited: nothing is added
\* and nothing is played
C26_Witness ==
    /\ loop.pc = "render"
    /\ loop.frames > 0
    /\ CellAtPoint(maze, player.x, player.y) = "c"
    /\ Len(game.visited_checkpoints) = 1
    /\ audio.events = << >>

\* the mode changes from `from` to `to` in this step
ModeGoes(from, to) == game.mode = from /\ game'.mode = to

BackToWelcome ==
    /\ game.mode = "Welcome"
    /\ loop.frames > 0

----------------------------------------------------------------------------
(* The sprite set after a load *)

InteractiveSymbols == {"k", "c", "e", "l", "t"}

\* the cells of m that hold an interactive symbol, as <<row, col>>, 0-based
InteractiveCells(m) ==
    {cell \in (0..(Len(m) - 1)) \X (0..(MaxLen(m) - 1)) :
        /\ cell[2] < Len(m[cell[1] + 1])
        /\ m[cell[1] + 1][cell[2] + 1] \in InteractiveSymbols}

\* the sprites of ss that stand at the centre of cell <<row, col>>
SpritesAtCentre(ss, cell) ==
    {i \in 1..Len(ss) :
        /\ ss[i].world_x = Ticks(cell[2] * block_size + block_size \div 2)
        /\ ss[i].world_y = Ticks(cell[1] * block_size + block_size \div 2)}

ActiveSprites(ss) == {i \in 1..Len(ss) : ss[i].active}

\* m holds each interactive symbol in exactly one cell
OneOfEachSymbol(m) ==
    \A symbol \in InteractiveSymbols :
        Cardinality({cell \in InteractiveCells(m) :
                        m[cell[1] + 1][cell[2] + 1] = symbol}) = 1

\* ss is exactly one active sprite per interactive cell of m, at its centre
OnePerInteractiveCell(ss, m) ==
    /\ Len(ss) = Cardinality(InteractiveCells(m))
    /\ ActiveSprites(ss) = 1..Len(ss)
    /\ \A cell \in InteractiveCells(m) :
          /\ Cardinality(SpritesAtCentre(ss, cell)) = 1
          /\ \A i \in SpritesAtCentre(ss, cell) :
                ss[i].sprite_type = from_char(m[cell[1] + 1][cell[2] + 1])
    /\ OneOfEachSymbol(m) => Cardinality(ActiveSprites(ss)) = 5

\* the steps of the main loop that call load_sprites_from_maze: the level
\* chosen on the welcome screen, the next level after a victory, the R key
LoadsSprites ==
    \/ WelcomeSelect
    \/ VictoryContinue /\ game.current_level < 3
    \/ PlayKeys /\ <<maze, player, game, sprites>>' # <<maze, player, game, sprites>>

\* C12: after load_sprites_from_maze, whatever the sprite set was before, the
\* set is exactly one active sprite per interactive cell (k, c, e, l, t) of the
\* maze, each at the centre of its cell; a maze with one of each symbol gives
\* exactly 5 active sprites.
C12_LoadGivesOneSpritePerCell ==
    [][LoadsSprites => OnePerInteractiveCell(sprites', maze')]_vars

\* a reload in a later pass, over the pulsating sprites of the earlier load,
\* of the maze with one of each symbol
C12_Witness ==
    /\ loop.pc = "top"
    /\ loop.frames >= 1
    /\ game.mode = "Playing"
    /\ OneOfEachSymbol(maze)
    /\ Cardinality(ActiveSprites(sprites)) = 5
    /\ \A i \in 1..Len(sprites) :
          sprites[i].scale = get_base_scale(sprites[i].sprite_type)

----------------------------------------------------------------------------
(* The player's cell: main.rs with a level of two adjacent traps.  The     *)
(* passes of the Playing arm are those of the main loop; the run is long   *)
(* enough for the player to walk from the start cell to a cell edge.       *)

\* a level with traps in two adjacent cells below a wall and the start cell
TwinTrapFile ==
    [exists |-> TRUE,
     lines |-> << <<"#", "#", "#", "#">>,
                  <<"#", "#", " ", "#">>,
                  <<"#", "t", "t", "#">>,
                  <<"#", "#", "#", "#">> >>]

\* forward, forward with a turn of the mouse, forward with a strafe to the
\* right, a strafe to the left
WalkInputs ==
    { [keys |-> {"W"}, mouse |-> 0], [keys |-> {"W"}, mouse |-> 464],
      [keys |-> {"W", "D"}, mouse |-> 0], [keys |-> {"A"}, mouse |-> 0] }

\* passes of the Playing arm in one walk
MaxWalkFrames == 6

WalkInput == PlayInputOf(WalkInputs, MaxWalkFrames)

InitWalk ==
    /\ maze = << >>
    /\ player = [x |-> Ticks(150), y |-> Ticks(150), a |-> PI \div 3]
    /\ sprites = NoSprites
    /\ frame = FrameIdle
    /\ game = GameNew
    /\ loop = [LoopIdle EXCEPT !.pc = "top"]
    /\ audio = AudioNew
    /\ loader = [pc |-> "disk", file |-> TwinTrapFile]
    /\ cast = CastIdle
    /\ probe = ProbeIdle

NextWalk ==
    \/ WelcomeSelect
    \/ WalkInput
    \/ PlayUpdate
    \/ PlayRender
    \/ PlayKeys

SpecWalk == InitWalk /\ [][NextWalk]_vars

\* the cell of the player's centre is inside the grid and holds a walkable
\* symbol
CentreWalkable ==
    /\ player.x >= 0 /\ player.y >= 0
    /\ GridOf(player.y) < Len(maze)
    /\ GridOf(player.x) < Len(maze[GridOf(player.y) + 1])
    /\ maze[GridOf(player.y) + 1][GridOf(player.x) + 1] \in WalkableSymbols

\* the position load_level leaves the player at, for the level being played
\* and the file on disk, passes the 9-point radius check
LoadedInTheClear ==
    LET r == load_level(game, game.current_level, loader.file)
    IN Game_can_move_to_safe(r.maze, r.player.x, r.player.y)

\* C22: when the level was loaded with the player's position passing the
\* 9-point radius check, then after any keyboard movement steps and game
\* updates, trap knockbacks included, the cell of the player's centre is a
\* walkable cell of the grid.
C22_CentreStaysWalkable ==
    (game.mode = "Playing" /\ Len(maze) # 0 /\ LoadedInTheClear) => CentreWalkable

----------------------------------------------------------------------------
(* The exit: main.rs with a level whose keys and exit meet at a corner, so *)
(* that the player can step on the exit with or without the keys.          *)

\* a level with two keys and the exit around the corner of the start cell
CornerFile ==
    [exists |-> TRUE,
     lines |-> << <<"#", "#", "#", "#">>,
                  <<"#", " ", "k", "#">>,
                  <<"#", "k", "e", "#">>,
                  <<"#", "#", "#", "#">> >>]

\* forward, forward with a strafe to the right, backward with a strafe to
\* the right
ExitInputs == [keys : {{"W"}, {"W", "D"}, {"S", "D"}}, mouse : {0}]

\* passes of the Playing arm in one run to the exit
MaxExitFrames == 5

ExitInput == PlayInputOf(ExitInputs, MaxExitFrames)

InitExit ==
    /\ maze = << >>
    /\ player = [x |-> Ticks(150), y |-> Ticks(150), a |-> PI \div 3]
    /\ sprites = NoSprites
    /\ frame = FrameIdle
    /\ game = GameNew
    /\ loop = [LoopIdle EXCEPT !.pc = "top"]
    /\ audio = AudioNew
    /\ loader = [pc |-> "disk", file |-> CornerFile]
    /\ cast = CastIdle
    /\ probe = ProbeIdle

NextExit ==
    \/ WelcomeSelect
    \/ ExitInput
    \/ PlayUpdate
    \/ PlayRender
    \/ PlayKeys

SpecExit == InitExit /\ [][NextExit]_vars

\* the symbol of the cell the player's centre is in, "" outside the grid
CellUnder(m, p) ==
    IF p.x < 0 \/ p.y < 0 THEN ""
    ELSE IF GridOf(p.y) >= Len(m) THEN ""
    ELSE IF GridOf(p.x) >= Len(m[GridOf(p.y) + 1]) THEN ""
    ELSE m[GridOf(p.y) + 1][GridOf(p.x) + 1]

\* the exit's conditions: the key held and current_level - 1 checkpoints
\* visited
ExitOpen(g) ==
    g.has_key /\ Len(g.visited_checkpoints) >= g.current_level - 1

ExitShutWithoutKey ==
    /\ loop.pc = "render"
    /\ game.mode = "Playing"
    /\ CellUnder(maze, player) = "e"
    /\ ~game.has_key

\* an update has just left the player on the exit with the keys and too few
\* checkpoints
ExitShutWithoutCheckpoints ==
    /\ loop.pc = "render"
    /\ game.mode = "Playing"
    /\ CellUnder(maze, player) = "e"
    /\ game.has_key

----------------------------------------------------------------------------
(* The notification queue under any sequence of add_notification and       *)
(* update calls                                                            *)

\* the notifications the game shows: message, type, duration
NotifyKinds ==
    { <<"show_trap_activated", "Error", 2000>>,
      <<"show_extra_life", "Success", 2500>>,
      <<"show_life_lost", "Error", 3000>> }

\* delta_time of an update, in milliseconds
NotifyDeltas == {1000, 1500}

\* a call of add_notification
AddNotification ==
    /\ \E k \in NotifyKinds :
         /\ game' = [game EXCEPT !.notification_manager =
                                    add_notification(@, k[1], k[2], k[3])]
         /\ probe' = [pc |-> "add_notification", message |-> k[1], duration |-> k[3],
                      full |-> Len(game.notification_manager) >= max_notifications]
    /\ UNCHANGED <<maze, player, cast, loader, sprites, frame, loop, audio>>

\* a call of NotificationManager::update
UpdateNotifications ==
    /\ \E delta_time \in NotifyDeltas :
         /\ game' = [game EXCEPT !.notification_manager =
                                    NotificationManager_update(@, delta_time)]
         /\ probe' = [pc |-> "update", delta_time |-> delta_time,
                      before |-> game.notification_manager]
    /\ UNCHANGED <<maze, player, cast, loader, sprites, frame, loop, audio>>

InitNotify ==
    /\ game = GameNew
    /\ probe = ProbeIdle
    /\ maze = << >>
    /\ player = [x |-> Ticks(150), y |-> Ticks(150), a |-> PI \div 3]
    /\ sprites = NoSprites
    /\ frame = FrameIdle
    /\ loop = LoopIdle
    /\ audio = AudioNew
    /\ loader = LoaderIdle
    /\ cast = CastIdle

NextNotify == AddNotification \/ UpdateNotifications

SpecNotify == InitNotify /\ [][NextNotify]_vars

\* the positions of q whose entry is still to be shown after delta_time
Lasting(q, delta_time) == { i \in 1..Len(q) : q[i].remaining_time > delta_time }

\* the k-th smallest member of the set S of numbers
RECURSIVE Kth(_, _)
Kth(S, k) ==
    LET least == CHOOSE i \in S : \A j \in S : i <= j
    IN IF k = 1 THEN least ELSE Kth(S \ {least}, k - 1)

\* the step put the entry named by the call at the front, in front of the
\* entries held before, of which the one at the back is dropped when the
\* queue was full
AddedAtFront ==
    LET q == game.notification_manager
        after == game'.notification_manager
    IN /\ after[1].message = probe'.message
       /\ after[1].remaining_time = probe'.duration
       /\ Tail(after) = IF Len(q) = 5 THEN SubSeq(q, 1, 4) ELSE q

\* the step removed exactly the entries whose remaining time dropped to 0 or
\* below and kept the others in order, their time reduced
ExpiredRemoved ==
    LET q == game.notification_manager
        after == game'.notification_manager
        dt == probe'.delta_time
    IN /\ Len(after) = Cardinality(Lasting(q, dt))
       /\ \A k \in 1..Len(after) :
             after[k] = [q[Kth(Lasting(q, dt), k)] EXCEPT !.remaining_time = @ - dt]

\* C28: the queue never holds more than 5 entries; add_notification puts
\* the new entry at the front and, when the queue was full, drops the entry
\* at the back, the oldest; update removes exactly the entries whose
\* remaining time has dropped to 0 or below.
C28_QueueBounded ==
    /\ [](Len(game.notification_manager) <= 5)
    /\ [][AddNotification => AddedAtFront]_vars
    /\ [][UpdateNotifications => ExpiredRemoved]_vars

\* a notification has just been added to a full queue whose entries had
\* been updated
C28_Witness ==
    /\ probe.pc = "add_notification"
    /\ probe.full
    /\ Len(game.notification_manager) = 5
    /\ game.notification_manager[1].remaining_time = game.notification_manager[1].duration
    /\ game.notification_manager[5].remaining_time < game.notification_manager[5].duration

\* an update has just removed an entry whose time dropped to exactly 0 and
\* one whose time dropped below 0, and kept another
ExpiredAtZeroAndBelow ==
    /\ probe.pc = "update"
    /\ \E i, j \in 1..Len(probe.before) :
          /\ probe.before[i].remaining_time = probe.delta_time
          /\ probe.before[j].remaining_time < probe.delta_time
    /\ Len(game.notification_manager) > 0
    /\ Len(game.notification_manager) = Len(probe.before) - 2

----------------------------------------------------------------------------
(* A campaign: main.rs over a level that is won and, at the next level,    *)
(* lost, with the timer threads of the audio manager running in between.   *)

\* a level that starts on a trap, with the key and the exit around the
\* corner of the start cell
CampaignFile ==
    [exists |-> TRUE,
     lines |-> << <<"#", "#", "#", "#">>,
                  <<"#", "t", "k", "#">>,
                  <<"#", " ", "e", "#">>,
                  <<"#", "#", "#", "#">> >>]

\* forward, or no key at all
CampaignInputs == [keys : {{"W"}, {}}, mouse : {0}]

\* passes of the Playing arm in one campaign
MaxCampaignFrames == 8

CampaignInput == PlayInputOf(CampaignInputs, MaxCampaignFrames)

InitCampaign ==
    /\ maze = << >>
    /\ player = [x |-> Ticks(150), y |-> Ticks(150), a |-> PI \div 3]
    /\ sprites = NoSprites
    /\ frame = FrameIdle
    /\ game = GameNew
    /\ loop = [LoopIdle EXCEPT !.pc = "top"]
    /\ audio = AudioNew
    /\ loader = [pc |-> "disk", file |-> CampaignFile]
    /\ cast = CastIdle
    /\ probe = ProbeIdle

NextCampaign ==
    \/ WelcomePass
    \/ WelcomeSelect
    \/ TimerRun
    \/ CampaignInput
    \/ PlayUpdate
    \/ PlayRender
    \/ PlayKeys
    \/ GameOverReset
    \/ VictoryContinue

SpecCampaign == InitCampaign /\ [][NextCampaign]_vars

\* C29: in every interleaving of the main loop's calls with the timer
\* threads, between two calls of the main loop the music slot agrees with
\* the main thread's bookkeeping: the slot is empty when music_playing is
\* false, and it does not hold the background track when
\* current_music_type is Menu.
C29_SlotAgreesWithBookkeeping ==
    audio.main = << >> =>
        /\ ~audio.music_playing => ~audio.music_sink.some
        /\ audio.current_music_type = "Menu" =>
              ~(audio.music_sink.some /\ audio.music_sink.track = "background_music")

\* the menu music was started after a LevelComplete, and the timer of that
\* event has put the background track into the slot
BackgroundOverMenu ==
    /\ audio.main = << >>
    /\ audio.music_playing
    /\ audio.current_music_type = "Menu"
    /\ audio.music_sink.some
    /\ audio.music_sink.track = "background_music"

\* the music was stopped by a game over after a LevelComplete, and the timer
\* of that event has put the background track into the slot
BackgroundOverSilence ==
    /\ audio.main = << >>
    /\ ~audio.music_playing
    /\ audio.music_sink.some
    /\ audio.music_sink.track = "background_music"

\* ---------------------------------------------------------------------
\* The four walkability checks at one world point
\* ---------------------------------------------------------------------

MaxGridRows == 2
MaxGridCols == 2

\* the symbols a probed cell holds: the six walkable ones, three of the wall
\* symbols and one that is neither
GridSymbols == WalkableSymbols \cup {"#", "+", "g", "p"}

\* a grid of h rows of w cells of the symbol ground, with the symbol s at
\* column gx of row gy
GridWith(h, w, ground, gx, gy, s) ==
    [r \in 1..h |-> [c \in 1..w |-> IF r = gy + 1 /\ c = gx + 1 THEN s ELSE ground]]

\* the grid without the last cell of its last row
ShortLastRow(m) ==
    [r \in 1..Len(m) |-> IF r = Len(m) THEN SubSeq(m[r], 1, Len(m[r]) - 1) ELSE m[r]]

Grids ==
    {EmptyMaze}
        \cup {GridWith(h, 0, "#", 0, 0, "#") : h \in 1..MaxGridRows}
        \cup UNION {UNION {{GridWith(h, w, ground, gx, gy, s) :
                               gx \in 0..(w - 1), gy \in 0..(h - 1),
                               ground \in {"#", " "}, s \in GridSymbols}
                           : w \in 1..MaxGridCols} : h \in 1..MaxGridRows}

\* world coordinates checked: one before the grid, then the first, the middle
\* and the last unit of each of the first n + 1 cells
WalkCoords(n) ==
    {Ticks(-50)}
        \cup UNION {{Ticks(block_size * i), Ticks(block_size * i + 50),
                     Ticks(block_size * i + 99)} : i \in 0..n}

MazeData_is_walkable_no_exit(cell) ==
    BoolOf(cell, {" ", "k", "t", "l", "c"})

\* MazeData::is_walkable: matches!(cell, ' ' | 'k' | 't' | 'l' | 'c' | 'e')
MazeData_is_walkable(cell) ==
    BoolOf(cell, {" ", "k", "t", "l", "c", "e"})

\* MazeData::can_move_to
MazeData_can_move_to(m, x, y) ==
    IF x < 0 \/ y < 0 THEN "false"
    ELSE MazeData_is_walkable(MazeData_get_cell(m, GridOf(x), GridOf(y)))

\* the four checks applied to one world point of the grid
CheckWalkable ==
    /\ probe.pc = "idle"
    /\ \E x \in WalkCoords(MaxLen(maze)), y \in WalkCoords(Len(maze)) :
         probe' = [pc |-> "walkable", x |-> x, y |-> y,
                   maze_data |-> MazeData_can_move_to(maze, x, y),
                   collision |-> Collision_can_move_to(maze, x, y),
                   player |-> is_position_walkable_safe(maze, x, y),
                   game_state |-> is_position_safe(maze, x, y)]
    /\ UNCHANGED <<maze, player, cast, loader, sprites, frame, game, loop, audio>>

InitWalkable ==
    /\ \E m \in Grids, ragged \in BOOLEAN :
         maze = IF ragged THEN ShortLastRow(m) ELSE m
    /\ player = [x |-> Ticks(150), y |-> Ticks(150), a |-> 0]
    /\ cast = CastIdle
    /\ loader = [pc |-> "file", file |-> NoFile]
    /\ probe = ProbeIdle
    /\ sprites = NoSprites
    /\ frame = FrameIdle
    /\ game = GameNew
    /\ loop = LoopIdle
    /\ audio = AudioNew

NextWalkable == CheckWalkable

SpecWalkable == InitWalkable /\ [][NextWalkable]_vars

EqualRows(m) == \A r \in 1..Len(m) : Len(m[r]) = Len(m[1])

\* the point (x, y) lies in a cell of the grid and that cell is walkable
InWalkableCell(m, x, y) ==
    /\ x >= 0
    /\ y >= 0
    /\ GridOf(y) < Len(m)
    /\ GridOf(x) < Len(m[GridOf(y) + 1])
    /\ m[GridOf(y) + 1][GridOf(x) + 1] \in WalkableSymbols

\* C30: on a maze whose rows have equal length, with block size 100, the four
\* walkability checks (MazeData::can_move_to, CollisionSystem::can_move_to,
\* is_position_walkable_safe, GameState::is_position_safe) return the same
\* boolean at every world point: true exactly when the point lies in a cell
\* of the grid that holds ' ', 'k', 't', 'l', 'c' or 'e'.
C30_WalkabilityChecksAgree ==
    (probe.pc = "walkable" /\ EqualRows(maze)) =>
        LET walkable == InWalkableCell(maze, probe.x, probe.y) IN
        /\ probe.maze_data = (IF walkable THEN "true" ELSE "false")
        /\ probe.collision = (IF walkable THEN "true" ELSE "false")
        /\ probe.player = walkable
        /\ probe.game_state = walkable

\* a point in the trap cell of a grid of two rows of two cells, which all
\* four checks accept
C30_Witness ==
    /\ probe.pc = "walkable"
    /\ EqualRows(maze)
    /\ Len(maze) = 2
    /\ Len(maze[1]) = 2
    /\ InWalkableCell(maze, probe.x, probe.y)
    /\ maze[GridOf(probe.y) + 1][GridOf(probe.x) + 1] = "t"
    /\ probe.maze_data = "true"
    /\ probe.collision = "true"
    /\ probe.player
    /\ probe.game_state

\* a point past the last row of a grid with equal rows, which all four
\* checks refuse
RefusedPastTheGrid ==
    /\ probe.pc = "walkable"
    /\ EqualRows(maze)
    /\ Len(maze) >= 1
    /\ probe.x >= 0
    /\ GridOf(probe.y) >= Len(maze)
    /\ probe.maze_data = "false"
    /\ probe.collision = "false"
    /\ ~probe.player
    /\ ~probe.game_state

\* on a grid whose last row is shorter, MazeData and the collision system
\* index past the end of that row while the other two checks refuse the point
ShortRowDivides ==
    /\ probe.pc = "walkable"
    /\ ~EqualRows(maze)
    /\ probe.maze_data = "panic"
    /\ probe.collision = "panic"
    /\ ~probe.player
    /\ ~probe.game_state

====
